---- MODULE Spec2Model ----
(***************************************************************************)
(* SpendTrackMaster: the statement-ingestion and auto-categorization       *)
(* pipeline (src/pages/1_Upload_Statements.py, src/utils.py,               *)
(* src/database.py).                                                       *)
(*                                                                         *)
(* Text is modelled as a sequence of one-character strings, so that        *)
(* str.lower(), str.strip(), str.endswith() and the `in` substring test    *)
(* are computed the way Python computes them.                              *)
(***************************************************************************)
EXTENDS Integers, Sequences, FiniteSets, TLC

VARIABLES
    uploaded_files,       \* upload page: the files of the batch, in upload order
    file_idx,             \* upload page: position of the next file of the loop
    processing_results,   \* upload page: the report, one entry per processed file
    total_inserted,       \* upload page: the grand total
    transactions_table,   \* database: the rows of the transactions table
    next_id,              \* database: the next AUTOINCREMENT id
    table_before,         \* the transactions table when the batch started
    calls,                \* the calls of the parsers and of insert_transactions
    pc,                   \* upload page: "loop", then "done"
    description,          \* classifier: the argument of categorize_transaction
    category_result,      \* classifier: the returned label
    cpc,                  \* classifier: "ready" before the call, "done" after
    insert_arg,           \* bulk insert: the transactions_data of the call
    insert_db,            \* bulk insert: the database condition the call meets
    insert_ret,           \* bulk insert: what the call returned or raised
    ipc,                  \* bulk insert: "ready", then "returned" or "raised"
    other_tables,         \* database: recurring_expenses, travel_budget, income, categories
    classifier_calls,     \* session: the calls of categorize_transaction so far
    extract_in,           \* extractor: the file handed to the parser
    extract_ret,          \* extractor: what the parser returned or raised
    layout,               \* extractor: the layout parse_bank_excel detected
    epc,                  \* extractor: "ready", then "done"
    prorate_in,           \* prorating: the amount and the frequency of the call
    monthly_amount,       \* prorating: the returned monthly amount
    rpc,                  \* prorating: "ready" before the call, "done" after
    store_log,            \* provenance: the uploads, manual entries and deletes so far
    conn,                 \* batch: the open connection of the writing session
    batch_op,             \* batch: the operation under way and what is left of it
    observed,             \* batch: what the reading session last read
    selected_transaction_ids,  \* mass edit: st.session_state.selected_transaction_ids
    description_filter,   \* mass edit: the text of the description filter
    recurring_view,       \* dashboard: what get_monthly_summary last read and summed
    travel_session,       \* travel page: per session, the position and current_balance
    travel_form           \* travel page: the last submitted form and its outcome

cvars == <<description, category_result, cpc>>

ivars == <<insert_arg, insert_db, insert_ret, ipc>>

uvars == <<uploaded_files, file_idx, processing_results, total_inserted,
           transactions_table, next_id, table_before, calls, pc>>

svars == <<classifier_calls>>

evars == <<extract_in, extract_ret, layout, epc>>

rvars == <<prorate_in, monthly_amount, rpc>>

\* the state of the pages other than the upload page
dvars == <<store_log>>

bvars == <<conn, batch_op, observed>>

mvars == <<selected_transaction_ids, description_filter>>

lvars == <<recurring_view, travel_session, travel_form>>

pvars == <<rvars, dvars, bvars, mvars, lvars>>

\* the state of the upload page, its parsers and the classifier
stvars == <<uvars, cvars, ivars, svars, evars>>

vars == <<uvars, cvars, ivars, other_tables, svars, evars, pvars>>

-----------------------------------------------------------------------------
(* Text helpers                                                            *)

UpperLetters ==
    <<"A","B","C","D","E","F","G","H","I","J","K","L","M",
      "N","O","P","Q","R","S","T","U","V","W","X","Y","Z">>

LowerLetters ==
    <<"a","b","c","d","e","f","g","h","i","j","k","l","m",
      "n","o","p","q","r","s","t","u","v","w","x","y","z">>

UpperSet == {UpperLetters[i] : i \in 1..26}

LowerSet == {LowerLetters[i] : i \in 1..26}

ToLower == [c \in UpperSet |-> LowerLetters[CHOOSE i \in 1..26 : UpperLetters[i] = c]]

ToUpper == [c \in LowerSet |-> UpperLetters[CHOOSE i \in 1..26 : LowerLetters[i] = c]]

lower_char(c) == IF c \in UpperSet THEN ToLower[c] ELSE c

upper_char(c) == IF c \in LowerSet THEN ToUpper[c] ELSE c

\* str.lower()
lower(s) == SubSeq([i \in 1..Len(s) |-> lower_char(s[i])], 1, Len(s))

\* str.upper()
upper(s) == SubSeq([i \in 1..Len(s) |-> upper_char(s[i])], 1, Len(s))

\* Python's `kw in s` on strings
Contains(kw, s) ==
    \/ kw = <<>>
    \/ \E i \in 1..(Len(s) - Len(kw) + 1) :
          s[i] = kw[1] /\ SubSeq(s, i, i + Len(kw) - 1) = kw

\* for keyword in <list>: if keyword in description_lower: return ...
AnyKeywordIn(list, s) == \E k \in 1..Len(list) : Contains(list[k], s)

-----------------------------------------------------------------------------
(* categorize_transaction: the keyword lists, in the order of the source   *)

\* src/utils.py:285-288
grocery_keywords ==
    << <<"w","h","o","l","e"," ","f","o","o","d","s">>,
    <<"t","r","a","d","e","r"," ","j","o","e">>,
    <<"s","a","f","e","w","a","y">>,
    <<"k","r","o","g","e","r">>,
    <<"w","a","l","m","a","r","t"," ","g","r","o","c","e","r","y">>,
    <<"t","a","r","g","e","t"," ","g","r","o","c","e","r","y">>,
    <<"c","o","s","t","c","o">>,
    <<"s","a","m","'","s"," ","c","l","u","b">>,
    <<"g","r","o","c","e","r","y">>,
    <<"m","a","r","k","e","t">>,
    <<"f","r","e","s","h">>,
    <<"o","r","g","a","n","i","c">>,
    <<"f","o","o","d"," ","l","i","o","n">>,
    <<"h","a","r","r","i","s"," ","t","e","e","t","e","r">> >>

\* src/utils.py:291-295
eating_out_keywords ==
    << <<"r","e","s","t","a","u","r","a","n","t">>,
    <<"c","a","f","e">>,
    <<"c","o","f","f","e","e">>,
    <<"s","t","a","r","b","u","c","k","s">>,
    <<"m","c","d","o","n","a","l","d","'","s">>,
    <<"c","h","i","p","o","t","l","e">>,
    <<"b","u","r","g","e","r">>,
    <<"p","i","z","z","a">>,
    <<"t","a","c","o">>,
    <<"d","i","n","i","n","g">>,
    <<"k","i","t","c","h","e","n">>,
    <<"d","o","o","r","d","a","s","h">>,
    <<"u","b","e","r"," ","e","a","t","s">>,
    <<"g","r","u","b","h","u","b">>,
    <<"t","a","k","e","o","u","t">>,
    <<"d","e","l","i","v","e","r","y">> >>

\* src/utils.py:298-302
household_keywords ==
    << <<"a","m","a","z","o","n">>,
    <<"t","a","r","g","e","t">>,
    <<"w","a","l","m","a","r","t">>,
    <<"b","e","s","t"," ","b","u","y">>,
    <<"h","o","m","e"," ","d","e","p","o","t">>,
    <<"l","o","w","e","s">>,
    <<"b","e","d"," ","b","a","t","h">>,
    <<"i","k","e","a">>,
    <<"c","o","s","t","c","o">>,
    <<"h","o","u","s","e","h","o","l","d">>,
    <<"f","u","r","n","i","t","u","r","e">>,
    <<"a","p","p","l","i","a","n","c","e">>,
    <<"c","l","e","a","n","i","n","g">>,
    <<"s","u","p","p","l","i","e","s">> >>

\* src/utils.py:305-308
gas_keywords ==
    << <<"s","h","e","l","l">>,
    <<"e","x","x","o","n">>,
    <<"c","h","e","v","r","o","n">>,
    <<"b","p">>,
    <<"m","o","b","i","l">>,
    <<"s","u","n","o","c","o">>,
    <<"g","a","s"," ","s","t","a","t","i","o","n">>,
    <<"f","u","e","l">>,
    <<"g","a","s","o","l","i","n","e">>,
    <<"p","e","t","r","o","l">> >>

\* src/utils.py:311-315
utility_keywords ==
    << <<"e","l","e","c","t","r","i","c">>,
    <<"g","a","s"," ","c","o","m","p","a","n","y">>,
    <<"w","a","t","e","r">>,
    <<"i","n","t","e","r","n","e","t">>,
    <<"p","h","o","n","e">>,
    <<"c","a","b","l","e">>,
    <<"u","t","i","l","i","t","y">>,
    <<"p","o","w","e","r">>,
    <<"e","n","e","r","g","y">>,
    <<"v","e","r","i","z","o","n">>,
    <<"c","o","m","c","a","s","t">>,
    <<"a","t","&","t">>,
    <<"s","p","e","c","t","r","u","m">> >>

\* src/utils.py:318-321
health_keywords ==
    << <<"c","v","s">>,
    <<"w","a","l","g","r","e","e","n","s">>,
    <<"p","h","a","r","m","a","c","y">>,
    <<"d","o","c","t","o","r">>,
    <<"m","e","d","i","c","a","l">>,
    <<"h","o","s","p","i","t","a","l">>,
    <<"d","e","n","t","i","s","t">>,
    <<"h","e","a","l","t","h">>,
    <<"p","r","e","s","c","r","i","p","t","i","o","n">>,
    <<"m","e","d","i","c","i","n","e">>,
    <<"c","l","i","n","i","c">> >>

\* src/utils.py:324-327
travel_keywords ==
    << <<"a","i","r","l","i","n","e">>,
    <<"f","l","i","g","h","t">>,
    <<"h","o","t","e","l">>,
    <<"a","i","r","b","n","b">>,
    <<"u","b","e","r">>,
    <<"l","y","f","t">>,
    <<"t","a","x","i">>,
    <<"r","e","n","t","a","l"," ","c","a","r">>,
    <<"a","i","r","p","o","r","t">>,
    <<"b","o","o","k","i","n","g">>,
    <<"e","x","p","e","d","i","a">>,
    <<"t","r","a","v","e","l">> >>

\* src/utils.py:330-333
bills_keywords ==
    << <<"i","n","s","u","r","a","n","c","e">>,
    <<"l","o","a","n">>,
    <<"c","r","e","d","i","t"," ","c","a","r","d">>,
    <<"m","o","r","t","g","a","g","e">>,
    <<"r","e","n","t">>,
    <<"s","u","b","s","c","r","i","p","t","i","o","n">>,
    <<"m","e","m","b","e","r","s","h","i","p">>,
    <<"p","a","y","m","e","n","t">>,
    <<"a","u","t","o","p","a","y">> >>

\* src/utils.py:336-340
fun_keywords ==
    << <<"n","e","t","f","l","i","x">>,
    <<"h","u","l","u">>,
    <<"s","p","o","t","i","f","y">>,
    <<"a","p","p","l","e"," ","m","u","s","i","c">>,
    <<"c","i","n","e","m","a">>,
    <<"t","h","e","a","t","e","r">>,
    <<"m","o","v","i","e">>,
    <<"c","o","n","c","e","r","t">>,
    <<"g","a","m","e">>,
    <<"e","n","t","e","r","t","a","i","n","m","e","n","t">>,
    <<"a","m","a","z","o","n"," ","p","r","i","m","e">>,
    <<"y","o","u","t","u","b","e">>,
    <<"d","i","s","n","e","y">> >>

\* src/utils.py:343-345
gift_keywords ==
    << <<"g","i","f","t">>,
    <<"p","r","e","s","e","n","t">>,
    <<"f","l","o","w","e","r","s">>,
    <<"h","a","l","l","m","a","r","k">>,
    <<"c","a","r","d">> >>


\* A variant of categorize_transaction that answers with the category of a
\* stored transaction of the same description, if there is one.
categorize_learns_from_store(desc) ==
    LET description_lower == lower(desc)
        known == {k \in 1..Len(transactions_table) :
                    transactions_table[k].description = desc}
    IN
    IF known # {} THEN transactions_table[CHOOSE k \in known : TRUE].category
    ELSE IF AnyKeywordIn(grocery_keywords, description_lower) THEN "Groceries"
    ELSE IF AnyKeywordIn(eating_out_keywords, description_lower) THEN "Eating out"
    ELSE IF AnyKeywordIn(household_keywords, description_lower) THEN "Household Goods"
    ELSE IF AnyKeywordIn(gas_keywords, description_lower) THEN "Gas"
    ELSE IF AnyKeywordIn(utility_keywords, description_lower) THEN "Utilities"
    ELSE IF AnyKeywordIn(health_keywords, description_lower) THEN "Health"
    ELSE IF AnyKeywordIn(travel_keywords, description_lower) THEN "Travel"
    ELSE IF AnyKeywordIn(bills_keywords, description_lower) THEN "Bills"
    ELSE IF AnyKeywordIn(fun_keywords, description_lower) THEN "Fun / Misc"
    ELSE IF AnyKeywordIn(gift_keywords, description_lower) THEN "Gifts"
    ELSE "Uncategorized"

\* A variant of categorize_transaction that tests the household list first.
categorize_household_first(desc) ==
    LET description_lower == lower(desc) IN
    IF AnyKeywordIn(household_keywords, description_lower) THEN "Household Goods"
    ELSE IF AnyKeywordIn(grocery_keywords, description_lower) THEN "Groceries"
    ELSE IF AnyKeywordIn(eating_out_keywords, description_lower) THEN "Eating out"
    ELSE IF AnyKeywordIn(gas_keywords, description_lower) THEN "Gas"
    ELSE IF AnyKeywordIn(utility_keywords, description_lower) THEN "Utilities"
    ELSE IF AnyKeywordIn(health_keywords, description_lower) THEN "Health"
    ELSE IF AnyKeywordIn(travel_keywords, description_lower) THEN "Travel"
    ELSE IF AnyKeywordIn(bills_keywords, description_lower) THEN "Bills"
    ELSE IF AnyKeywordIn(fun_keywords, description_lower) THEN "Fun / Misc"
    ELSE IF AnyKeywordIn(gift_keywords, description_lower) THEN "Gifts"
    ELSE "Uncategorized"

\* A variant of categorize_transaction without the test of the gift list.
categorize_gifts_fall_through(desc) ==
    LET description_lower == lower(desc) IN
    IF AnyKeywordIn(grocery_keywords, description_lower) THEN "Groceries"
    ELSE IF AnyKeywordIn(eating_out_keywords, description_lower) THEN "Eating out"
    ELSE IF AnyKeywordIn(household_keywords, description_lower) THEN "Household Goods"
    ELSE IF AnyKeywordIn(gas_keywords, description_lower) THEN "Gas"
    ELSE IF AnyKeywordIn(utility_keywords, description_lower) THEN "Utilities"
    ELSE IF AnyKeywordIn(health_keywords, description_lower) THEN "Health"
    ELSE IF AnyKeywordIn(travel_keywords, description_lower) THEN "Travel"
    ELSE IF AnyKeywordIn(bills_keywords, description_lower) THEN "Bills"
    ELSE IF AnyKeywordIn(fun_keywords, description_lower) THEN "Fun / Misc"
    ELSE "Uncategorized"

\* src/utils.py:280-389
categorize_transaction(desc) ==
    LET description_lower == lower(desc) IN
    IF AnyKeywordIn(grocery_keywords, description_lower) THEN "Groceries"
    ELSE IF AnyKeywordIn(eating_out_keywords, description_lower) THEN "Eating out"
    ELSE IF AnyKeywordIn(household_keywords, description_lower) THEN "Household Goods"
    ELSE IF AnyKeywordIn(gas_keywords, description_lower) THEN "Gas"
    ELSE IF AnyKeywordIn(utility_keywords, description_lower) THEN "Utilities"
    ELSE IF AnyKeywordIn(health_keywords, description_lower) THEN "Health"
    ELSE IF AnyKeywordIn(travel_keywords, description_lower) THEN "Travel"
    ELSE IF AnyKeywordIn(bills_keywords, description_lower) THEN "Bills"
    ELSE IF AnyKeywordIn(fun_keywords, description_lower) THEN "Fun / Misc"
    ELSE IF AnyKeywordIn(gift_keywords, description_lower) THEN "Gifts"
    ELSE "Uncategorized"

NoResult == "None"

-----------------------------------------------------------------------------
(* More of Python's str                                                    *)

Whitespace == {" ", "\t", "\n"}

RECURSIVE lstrip(_)
lstrip(s) ==
    IF s # <<>> /\ Head(s) \in Whitespace THEN lstrip(Tail(s)) ELSE s

RECURSIVE rstrip(_)
rstrip(s) ==
    IF s # <<>> /\ s[Len(s)] \in Whitespace THEN rstrip(SubSeq(s, 1, Len(s) - 1)) ELSE s

\* str.strip()
strip(s) == rstrip(lstrip(s))

\* str.endswith(suffix)
endswith(s, suffix) ==
    /\ Len(s) >= Len(suffix)
    /\ SubSeq(s, Len(s) - Len(suffix) + 1, Len(s)) = suffix

\* str.replace(' ', '_')
replace_space(s) ==
    SubSeq([i \in 1..Len(s) |-> IF s[i] = " " THEN "_" ELSE s[i]], 1, Len(s))

Digits == <<"0","1","2","3","4","5","6","7","8","9">>

IsDigit(c) == \E i \in 1..10 : Digits[i] = c

DigitValue(c) == (CHOOSE i \in 1..10 : Digits[i] = c) - 1

RECURSIVE DigitsValue(_)
DigitsValue(s) ==
    IF s = <<>> THEN 0
    ELSE 10 * DigitsValue(SubSeq(s, 1, Len(s) - 1)) + DigitValue(s[Len(s)])

RECURSIVE NatText(_)
NatText(n) ==
    IF n < 10 THEN <<Digits[n + 1]>>
    ELSE NatText(n \div 10) \o <<Digits[(n % 10) + 1]>>

\* str(n) of an int
IntText(n) == IF n < 0 THEN <<"-">> \o NatText(-n) ELSE NatText(n)

-----------------------------------------------------------------------------
(* Cells of a parsed table or worksheet.  A blank cell is NaN in a pandas   *)
(* DataFrame and None in an openpyxl worksheet.  Amounts are whole numbers. *)

Blank == [kind |-> "blank"]
Str(s) == [kind |-> "str", s |-> s]
Num(n) == [kind |-> "num", n |-> n]
\* a cell pandas.to_datetime turns into the calendar day d
DateCell(d) == [kind |-> "date", d |-> d]

\* values of a transaction's date and amount
NaT == [kind |-> "NaT"]
NaNAmount == [kind |-> "nan"]
NoDate == [kind |-> "None"]
\* datetime.now().date()
Today == [kind |-> "date", d |-> 20]

\* what a call returns or raises; an error text is the sequence of the
\* pieces the message is formatted from
Return(v) == [raised |-> FALSE, value |-> v]
Raise(msg) == [raised |-> TRUE, error |-> msg]

\* float(x) of a cell value
float_of(cell) ==
    CASE cell.kind = "num" -> Return(Num(cell.n))
      [] cell.kind = "blank" -> Return(NaNAmount)
      [] cell.kind = "str" ->
            LET t == strip(cell.s)
                neg == t # <<>> /\ Head(t) \in {"-", "+"}
                body == IF neg THEN Tail(t) ELSE t
            IN  IF body # <<>> /\ \A i \in 1..Len(body) : IsDigit(body[i])
                THEN Return(Num(IF t[1] = "-" THEN -DigitsValue(body) ELSE DigitsValue(body)))
                ELSE Raise(<<"could not convert string to float">>)
      [] OTHER -> Raise(<<"float() argument must be a string or a real number">>)

\* pd.to_datetime(x).date() of a cell of a DataFrame
to_date(cell) ==
    CASE cell.kind = "date" -> Return([kind |-> "date", d |-> cell.d])
      [] cell.kind = "blank" -> Return(NaT)
      [] cell.kind = "num" -> Return([kind |-> "date", d |-> 0])
      [] OTHER -> Raise(<<"Unknown datetime string format">>)

\* str(x) of a cell value
str_of(cell) ==
    CASE cell.kind = "str" -> cell.s
      [] cell.kind = "num" -> IntText(cell.n)
      [] cell.kind = "blank" -> <<"n","a","n">>
      [] OTHER -> <<"d","a","y"," ">> \o NatText(cell.d)

-----------------------------------------------------------------------------
(* The standard extractor: parse_bank_csv and _parse_standard_excel        *)

COL_description == <<"d","e","s","c","r","i","p","t","i","o","n">>
COL_transaction_date == <<"t","r","a","n","s","a","c","t","i","o","n","_","d","a","t","e">>
COL_date == <<"d","a","t","e">>
COL_post_date == <<"p","o","s","t","_","d","a","t","e">>
COL_amount == <<"a","m","o","u","n","t">>
COL_type == <<"t","y","p","e">>
COL_memo == <<"m","e","m","o">>
COL_category == <<"c","a","t","e","g","o","r","y">>

\* df.columns.str.strip().str.lower().str.replace(' ', '_')
normalize_columns(header) ==
    SubSeq([i \in 1..Len(header) |-> replace_space(lower(strip(header[i])))],
           1, Len(header))

HasColumn(columns, name) == \E i \in 1..Len(columns) : columns[i] = name

ColumnIndex(columns, name) ==
    CHOOSE i \in 1..Len(columns) :
        columns[i] = name /\ \A j \in 1..(i - 1) : columns[j] # name

\* row.get(name, default)
row_get(columns, row, name, default) ==
    IF HasColumn(columns, name) THEN row[ColumnIndex(columns, name)] ELSE default

\* [col for col in df.columns if 'date' in col]
date_cols(columns) == SelectSeq(columns, LAMBDA c : Contains(COL_date, c))

\* the try block that parses the transaction date of one row
row_transaction_date(columns, row) ==
    LET cell ==
            IF HasColumn(columns, COL_transaction_date)
            THEN row[ColumnIndex(columns, COL_transaction_date)]
            ELSE IF HasColumn(columns, COL_date)
            THEN row[ColumnIndex(columns, COL_date)]
            ELSE row[ColumnIndex(columns, date_cols(columns)[1])]
        parsed == to_date(cell)
    IN  IF ~HasColumn(columns, COL_transaction_date) /\ ~HasColumn(columns, COL_date)
           /\ date_cols(columns) = <<>>
        THEN Today
        ELSE IF parsed.raised THEN Today ELSE parsed.value

row_post_date(columns, row) ==
    IF HasColumn(columns, COL_post_date)
       /\ row[ColumnIndex(columns, COL_post_date)].kind # "blank"
    THEN LET parsed == to_date(row[ColumnIndex(columns, COL_post_date)])
         IN  IF parsed.raised THEN NoDate ELSE parsed.value
    ELSE NoDate

row_amount(columns, row) ==
    LET parsed == float_of(row_get(columns, row, COL_amount, Num(0)))
    IN  IF parsed.raised THEN Num(0) ELSE parsed.value

\* amount > 0 (False for nan)
IsPositive(amount) == amount.kind = "num" /\ amount.n > 0

\* amount < 0 (False for nan)
IsNegative(amount) == amount.kind = "num" /\ amount.n < 0

AttributeErrorStrip(cell) ==
    IF cell.kind = "blank" THEN <<"'float' object has no attribute 'strip'">>
    ELSE IF cell.kind = "num" THEN <<"'int' object has no attribute 'strip'">>
    ELSE <<"'Timestamp' object has no attribute 'strip'">>

\* A variant of the loop body that keeps the category the file gives.
standard_row_trusts_file_category(columns, row, filename) ==
    LET desc_cell == row_get(columns, row, COL_description, Str(<<>>))
        type_cell == row_get(columns, row, COL_type, Str(<<>>))
        category_cell == row_get(columns, row, COL_category, Blank)
        amount == row_amount(columns, row)
    IN  IF desc_cell.kind = "blank" THEN Return(<<>>)
        ELSE IF desc_cell.kind # "str" THEN Raise(AttributeErrorStrip(desc_cell))
        ELSE IF strip(desc_cell.s) = <<>> THEN Return(<<>>)
        ELSE IF type_cell.kind # "str" THEN Raise(AttributeErrorStrip(type_cell))
        ELSE Return(<<
            [ transaction_date |-> row_transaction_date(columns, row),
              post_date |-> row_post_date(columns, row),
              description |-> strip(str_of(desc_cell)),
              category |-> IF category_cell.kind = "str" THEN category_cell.s
                           ELSE categorize_transaction(strip(str_of(desc_cell))),
              type |-> IF strip(type_cell.s) # <<>> THEN strip(type_cell.s)
                       ELSE IF IsPositive(amount) THEN <<"C","r","e","d","i","t">> ELSE <<"D","e","b","i","t">>,
              amount |-> amount,
              memo |-> strip(str_of(row_get(columns, row, COL_memo, Str(<<>>)))),
              source_file |-> filename ] >>)

\* A variant of the loop body that skips a row only when its description
\* cell is missing.
standard_row_keeps_spaces(columns, row, filename) ==
    LET desc_cell == row_get(columns, row, COL_description, Str(<<>>))
        type_cell == row_get(columns, row, COL_type, Str(<<>>))
        amount == row_amount(columns, row)
    IN  IF desc_cell.kind = "blank" THEN Return(<<>>)
        ELSE IF desc_cell.kind # "str" THEN Raise(AttributeErrorStrip(desc_cell))
        ELSE IF type_cell.kind # "str" THEN Raise(AttributeErrorStrip(type_cell))
        ELSE Return(<<
            [ transaction_date |-> row_transaction_date(columns, row),
              post_date |-> row_post_date(columns, row),
              description |-> strip(str_of(desc_cell)),
              category |-> categorize_transaction(strip(str_of(desc_cell))),
              type |-> IF strip(type_cell.s) # <<>> THEN strip(type_cell.s)
                       ELSE IF IsPositive(amount) THEN <<"C","r","e","d","i","t">> ELSE <<"D","e","b","i","t">>,
              amount |-> amount,
              memo |-> strip(str_of(row_get(columns, row, COL_memo, Str(<<>>)))),
              source_file |-> filename ] >>)

\* The body of `for _, row in df.iterrows()`: the row is skipped, raises, or
\* yields one transaction.
standard_row(columns, row, filename) ==
    LET desc_cell == row_get(columns, row, COL_description, Str(<<>>))
        type_cell == row_get(columns, row, COL_type, Str(<<>>))
        amount == row_amount(columns, row)
    IN  IF desc_cell.kind = "blank" THEN Return(<<>>)
        ELSE IF desc_cell.kind # "str" THEN Raise(AttributeErrorStrip(desc_cell))
        ELSE IF strip(desc_cell.s) = <<>> THEN Return(<<>>)
        ELSE IF type_cell.kind # "str" THEN Raise(AttributeErrorStrip(type_cell))
        ELSE Return(<<
            [ transaction_date |-> row_transaction_date(columns, row),
              post_date |-> row_post_date(columns, row),
              description |-> strip(str_of(desc_cell)),
              category |-> categorize_transaction(strip(str_of(desc_cell))),
              type |-> IF strip(type_cell.s) # <<>> THEN strip(type_cell.s)
                       ELSE IF IsPositive(amount) THEN <<"C","r","e","d","i","t">> ELSE <<"D","e","b","i","t">>,
              amount |-> amount,
              memo |-> strip(str_of(row_get(columns, row, COL_memo, Str(<<>>)))),
              source_file |-> filename ] >>)

\* A variant of the loop that puts each record in front of the list.
RECURSIVE standard_rows_newest_first(_, _, _)
standard_rows_newest_first(columns, rows, filename) ==
    IF rows = <<>> THEN Return(<<>>)
    ELSE LET first == standard_row(columns, Head(rows), filename)
             rest == standard_rows_newest_first(columns, Tail(rows), filename)
         IN  IF first.raised THEN first
             ELSE IF rest.raised THEN rest
             ELSE Return(rest.value \o first.value)

\* The loop over the rows: the first row that raises ends the loop.
RECURSIVE standard_rows(_, _, _)
standard_rows(columns, rows, filename) ==
    IF rows = <<>> THEN Return(<<>>)
    ELSE LET first == standard_row(columns, Head(rows), filename)
             rest == standard_rows(columns, Tail(rows), filename)
         IN  IF first.raised THEN first
             ELSE IF rest.raised THEN rest
             ELSE Return(first.value \o rest.value)

\* _parse_standard_excel(df, filename), df.columns already normalised
parse_standard_excel(columns, rows, filename) == standard_rows(columns, rows, filename)

\* parse_bank_csv(file_content, filename).  The decoded text is either what
\* pd.read_csv cannot read or a table with a header row.
parse_bank_csv(file_content, filename) ==
    IF file_content.kind # "table"
    THEN Raise(<<"Error parsing CSV file: ", "No columns to parse from file">>)
    ELSE LET parsed == standard_rows(normalize_columns(file_content.header),
                                     file_content.rows, filename)
         IN  IF parsed.raised
             THEN Raise(<<"Error parsing CSV file: ">> \o parsed.error)
             ELSE parsed

-----------------------------------------------------------------------------
(* The Excel parser: layout detection and the American Express extractor   *)

\* category_mapping, in the order of the dict
category_mapping ==
    << <<<<"a","i","r","l","i","n","e">>, "Travel">>,
       <<<<"h","o","t","e","l">>, "Travel">>,
       <<<<"t","r","a","v","e","l">>, "Travel">>,
       <<<<"m","o","b","i","l","e"," ","t","e","l","e","c","o","m">>, "Utilities">>,
       <<<<"i","n","t","e","r","n","e","t"," ","s","e","r","v","i","c","e","s">>, "Utilities">>,
       <<<<"e","d","u","c","a","t","i","o","n">>, "Business School">>,
       <<<<"m","e","r","c","h","a","n","d","i","s","e"," ","&"," ","s","u","p","p","l","i","e","s">>, "Household Goods">>,
       <<<<"g","r","o","c","e","r","i","e","s">>, "Groceries">>,
       <<<<"r","e","s","t","a","u","r","a","n","t","s">>, "Eating out">>,
       <<<<"g","a","s"," ","s","t","a","t","i","o","n","s">>, "Gas">>,
       <<<<"h","e","a","l","t","h"," ","&"," ","m","e","d","i","c","a","l">>, "Health">>,
       <<<<"e","n","t","e","r","t","a","i","n","m","e","n","t">>, "Fun / Misc">>,
       <<<<"g","i","f","t","s">>, "Gifts">>,
       <<<<"f","e","e","s"," ","&"," ","a","d","j","u","s","t","m","e","n","t","s">>, "Bills">> >>

\* the truth value of a cell value: None, '' and 0 are false
Truthy(cell) ==
    CASE cell.kind = "blank" -> FALSE
      [] cell.kind = "str" -> cell.s # <<>>
      [] cell.kind = "num" -> cell.n # 0
      [] OTHER -> TRUE

\* pd.to_datetime(x).date() of a worksheet cell: to_datetime(None) is None,
\* which has no date()
to_date_ws(cell) ==
    IF cell.kind = "blank"
    THEN Raise(<<"'NoneType' object has no attribute 'date'">>)
    ELSE to_date(cell)

\* A variant that asks the classifier first and the mapping only when the
\* description has no keyword.
amex_category_description_first(amex_cat, desc) ==
    LET hits == {i \in 1..Len(category_mapping) :
                    Contains(lower(category_mapping[i][1]), lower(amex_cat))}
    IN  IF categorize_transaction(desc) # "Uncategorized" THEN categorize_transaction(desc)
        ELSE IF amex_cat # <<>> /\ hits # {}
        THEN category_mapping[CHOOSE i \in hits : \A j \in hits : i <= j][2]
        ELSE "Uncategorized"

\* the mapping loop with its break, then the fallback on the description
amex_category(amex_cat, desc) ==
    LET hits == {i \in 1..Len(category_mapping) :
                    Contains(lower(category_mapping[i][1]), lower(amex_cat))}
        mapped == IF amex_cat # <<>> /\ hits # {}
                  THEN category_mapping[CHOOSE i \in hits : \A j \in hits : i <= j][2]
                  ELSE "Uncategorized"
    IN  IF mapped = "Uncategorized" THEN categorize_transaction(desc) ELSE mapped

\* A variant of the loop body that skips a row whose amount cell is empty.
amex_row_strict_amount(row, filename) ==
    IF Len(row) < 12 THEN <<>>
    ELSE
    LET date_cell == row[1]
        desc == IF Truthy(row[3]) THEN strip(str_of(row[3])) ELSE <<>>
        amount_cell == row[4]
        amex_cat == IF Truthy(row[12]) THEN strip(str_of(row[12])) ELSE <<>>
        trans_date == to_date_ws(date_cell)
        amount == float_of(amount_cell)
    IN  IF desc = <<>> THEN <<>>
        ELSE IF trans_date.raised THEN <<>>
        ELSE IF ~Truthy(amount_cell) \/ amount.raised THEN <<>>
        ELSE << [ transaction_date |-> trans_date.value,
                  post_date |-> NoDate,
                  description |-> desc,
                  category |-> amex_category(amex_cat, desc),
                  type |-> IF IsNegative(amount.value) THEN <<"D","e","b","i","t">> ELSE <<"C","r","e","d","i","t">>,
                  amount |-> amount.value,
                  memo |-> amex_cat,
                  source_file |-> filename ] >>

\* The body of the loop over the rows from row 8 on: any exception skips
\* the row.
amex_row(row, filename) ==
    IF Len(row) < 12 THEN <<>>
    ELSE
    LET date_cell == row[1]
        desc == IF Truthy(row[3]) THEN strip(str_of(row[3])) ELSE <<>>
        amount_cell == row[4]
        amex_cat == IF Truthy(row[12]) THEN strip(str_of(row[12])) ELSE <<>>
        trans_date == to_date_ws(date_cell)
        amount == IF Truthy(amount_cell) THEN float_of(amount_cell) ELSE Return(Num(0))
    IN  IF desc = <<>> THEN <<>>
        ELSE IF trans_date.raised THEN <<>>
        ELSE IF amount.raised THEN <<>>
        ELSE << [ transaction_date |-> trans_date.value,
                  post_date |-> NoDate,
                  description |-> desc,
                  category |-> amex_category(amex_cat, desc),
                  type |-> IF IsNegative(amount.value) THEN <<"D","e","b","i","t">> ELSE <<"C","r","e","d","i","t">>,
                  amount |-> amount.value,
                  memo |-> amex_cat,
                  source_file |-> filename ] >>

RECURSIVE amex_rows(_, _)
amex_rows(rows, filename) ==
    IF rows = <<>> THEN <<>>
    ELSE amex_row(Head(rows), filename) \o amex_rows(Tail(rows), filename)

\* _parse_amex_excel(ws, filename): ws.iter_rows(min_row=8)
parse_amex_excel(grid, filename) ==
    amex_rows(SubSeq(grid, 8, Len(grid)), filename)

\* max_column of the worksheet
SheetWidth(grid) ==
    IF grid = <<>> THEN 1
    ELSE CHOOSE w \in {Len(grid[i]) : i \in 1..Len(grid)} :
            \A i \in 1..Len(grid) : Len(grid[i]) <= w

\* [cell.value for cell in ws[7]]
row7_values(grid) ==
    IF Len(grid) >= 7 THEN grid[7] ELSE [i \in 1..SheetWidth(grid) |-> Blank]

\* A variant of the check without the test of the length of row 7.
is_amex_format_any_width(grid) ==
    LET row7 == row7_values(grid) IN
    /\ row7[1] = Str(<<"D","a","t","e">>)
    /\ \E i \in 1..Len(row7) :
          row7[i].kind = "str" /\ Contains(<<"D","e","s","c","r","i","p","t","i","o","n">>, row7[i].s)

\* the check of row 7 for the Amex headers
is_amex_format(grid) ==
    LET row7 == row7_values(grid) IN
    /\ Len(row7) >= 4
    /\ row7[1] = Str(<<"D","a","t","e">>)
    /\ \E i \in 1..Len(row7) :
          row7[i].kind = "str" /\ Contains(<<"D","e","s","c","r","i","p","t","i","o","n">>, row7[i].s)

\* the header pd.read_excel makes of the first row of the sheet
excel_header(grid) ==
    SubSeq([i \in 1..Len(grid[1]) |->
                IF grid[1][i].kind = "blank" THEN <<"U","n","n","a","m","e","d",":"," ">> \o NatText(i - 1)
                ELSE str_of(grid[1][i])],
           1, Len(grid[1]))

\* parse_bank_excel(file_content, filename).  The bytes are either what
\* openpyxl cannot load or a workbook whose active sheet is a grid of cells.
parse_bank_excel(file_content, filename) ==
    IF file_content.kind # "workbook"
    THEN Raise(<<"Error parsing Excel file: ", "File is not a zip file">>)
    ELSE IF is_amex_format(file_content.grid)
    THEN Return(parse_amex_excel(file_content.grid, filename))
    ELSE IF file_content.grid = <<>>
    THEN Return(<<>>)
    ELSE IF \E i \in 1..Len(file_content.grid[1]) :
                file_content.grid[1][i].kind \notin {"str", "blank"}
    THEN Raise(<<"Error parsing Excel file: ",
                 "Can only use .str accessor with string values!">>)
    ELSE LET parsed == parse_standard_excel(normalize_columns(excel_header(file_content.grid)),
                           Tail(file_content.grid), filename)
         IN  IF parsed.raised
             THEN Raise(<<"Error parsing Excel file: ">> \o parsed.error)
             ELSE parsed

-----------------------------------------------------------------------------
(* validate_file_format                                                    *)

supported_extensions == <<<<".","c","s","v">>, <<".","x","l","s","x">>, <<".","x","l","s">>>>

\* A variant that compares the extension without folding the case.
validate_file_format_case_sensitive(filename) ==
    \E i \in 1..Len(supported_extensions) :
        endswith(filename, supported_extensions[i])

validate_file_format(filename) ==
    \E i \in 1..Len(supported_extensions) :
        endswith(lower(filename), supported_extensions[i])

-----------------------------------------------------------------------------
(* The transactions table and insert_transactions                          *)

\* Whether the INSERT of one transaction succeeds: a NaT date cannot be
\* bound, and a nan amount is stored as NULL and breaks NOT NULL.
insert_succeeds(transaction) ==
    /\ transaction.transaction_date.kind = "date"
    /\ transaction.amount.kind = "num"

\* the row the INSERT statement stores (created_at is left out)
stored_row(transaction, id) ==
    [ id |-> id,
      transaction_date |-> transaction.transaction_date,
      post_date |-> transaction.post_date,
      description |-> transaction.description,
      category |-> transaction.category,
      type |-> transaction.type,
      amount |-> transaction.amount,
      memo |-> transaction.memo,
      source_file |-> transaction.source_file ]

\* A variant of the loop that counts every record it was given.
RECURSIVE insert_loop_counts_attempts(_, _, _)
insert_loop_counts_attempts(table, next, transactions_data) ==
    IF transactions_data = <<>>
    THEN [table |-> table, next_id |-> next, inserted_count |-> 0]
    ELSE LET rest == IF insert_succeeds(Head(transactions_data))
                     THEN insert_loop_counts_attempts(
                              Append(table, stored_row(Head(transactions_data), next)),
                              next + 1, Tail(transactions_data))
                     ELSE insert_loop_counts_attempts(table, next, Tail(transactions_data))
         IN  [rest EXCEPT !.inserted_count = @ + 1]

\* A variant of the loop that ends at the first record whose insert fails.
RECURSIVE insert_loop_stops_at_failure(_, _, _)
insert_loop_stops_at_failure(table, next, transactions_data) ==
    IF transactions_data = <<>>
    THEN [table |-> table, next_id |-> next, inserted_count |-> 0]
    ELSE IF insert_succeeds(Head(transactions_data))
    THEN LET rest == insert_loop_stops_at_failure(
                         Append(table, stored_row(Head(transactions_data), next)),
                         next + 1, Tail(transactions_data))
         IN  [rest EXCEPT !.inserted_count = @ + 1]
    ELSE [table |-> table, next_id |-> next, inserted_count |-> 0]

\* The loop of insert_transactions over transactions_data, from the table
\* and AUTOINCREMENT counter it starts with.
RECURSIVE insert_loop(_, _, _)
insert_loop(table, next, transactions_data) ==
    IF transactions_data = <<>>
    THEN [table |-> table, next_id |-> next, inserted_count |-> 0]
    ELSE IF insert_succeeds(Head(transactions_data))
    THEN LET rest == insert_loop(Append(table, stored_row(Head(transactions_data), next)),
                                 next + 1, Tail(transactions_data))
         IN  [rest EXCEPT !.inserted_count = @ + 1]
    ELSE insert_loop(table, next, Tail(transactions_data))

\* A variant of insert_transactions that first deletes the rows stored from
\* the same source file.
insert_transactions_replaces_source(table, next, transactions_data, db) ==
    IF db = "commit_error"
    THEN Raise(<<"database is locked">>)
    ELSE Return(insert_loop(
            SelectSeq(table, LAMBDA row :
                \A k \in 1..Len(transactions_data) :
                    row.source_file # transactions_data[k].source_file),
            next, transactions_data))

\* insert_transactions(transactions_data) under the database condition db:
\* either the commit fails ("commit_error": another session holds the lock)
\* and the statements are rolled back, or the accepted rows are committed.
insert_transactions(table, next, transactions_data, db) ==
    IF db = "commit_error"
    THEN Raise(<<"database is locked">>)
    ELSE Return(insert_loop(table, next, transactions_data))

\* update_transaction_category(transaction_id, category):
\* UPDATE transactions SET category = ? WHERE id = ?
update_transaction_category(table, transaction_id, category) ==
    SubSeq([k \in 1..Len(table) |->
                IF table[k].id = transaction_id
                THEN [table[k] EXCEPT !.category = category]
                ELSE table[k]], 1, Len(table))

\* delete_transaction(transaction_id): DELETE FROM transactions WHERE id = ?
delete_transaction(table, transaction_id) ==
    SelectSeq(table, LAMBDA row : row.id # transaction_id)

-----------------------------------------------------------------------------
(* The upload page: the loop over uploaded_files and the import summary    *)

None == [none |-> TRUE]
Text(parts) == [none |-> FALSE, text |-> parts]

result_entry(filename, status, count, error) ==
    [filename |-> filename, status |-> status, transactions |-> count, error |-> error]

\* uploaded_file.read() and, for a .csv name, .decode('utf-8')
read_file(file) ==
    IF endswith(lower(file.name), <<".","c","s","v">>) /\ file.content.kind = "undecodable"
    THEN Raise(<<"'utf-8' codec can't decode byte 0xff in position 0: invalid start byte">>)
    ELSE Return(file.content)

\* A variant of the handler in which the exception leaves the loop.
except_entry_aborts(s, file, error) == [s EXCEPT !.pc = "crashed"]

\* A variant of the handler that records no error text.
except_entry_no_text(s, file, error) ==
    [s EXCEPT !.results = Append(@, result_entry(file.name, "Failed", 0, None))]

\* except Exception as e: the file's entry is Failed with str(e)
except_entry(s, file, error) ==
    [s EXCEPT !.results = Append(@, result_entry(file.name, "Failed", 0, Text(error)))]

\* A variant of lines 78-95 without the test inserted_count > 0.
report_inserted_zero_is_success(s, file, inserted) ==
    IF inserted.raised
    THEN except_entry(s, file, inserted.error)
    ELSE [s EXCEPT !.table = inserted.value.table,
                   !.next_id = inserted.value.next_id,
                   !.total = @ + inserted.value.inserted_count,
                   !.results = Append(@,
                        result_entry(file.name, "Success",
                                     inserted.value.inserted_count, None))]

\* lines 78-95: the value insert_transactions returned is added to the total
\* and reported
report_inserted(s, file, inserted) ==
    IF inserted.raised
    THEN except_entry(s, file, inserted.error)
    ELSE IF inserted.value.inserted_count > 0
    THEN [s EXCEPT !.table = inserted.value.table,
                   !.next_id = inserted.value.next_id,
                   !.total = @ + inserted.value.inserted_count,
                   !.results = Append(@,
                        result_entry(file.name, "Success",
                                     inserted.value.inserted_count, None))]
    ELSE [s EXCEPT !.total = @ + inserted.value.inserted_count,
                   !.results = Append(@,
                        result_entry(file.name, "Failed", 0,
                                     Text(<<"Database insertion failed">>)))]

\* A variant of lines 57-77 without the test for an empty list.
handle_parsed_no_warning(s, file, i, parsed) ==
    IF parsed.raised
    THEN except_entry(s, file, parsed.error)
    ELSE report_inserted([s EXCEPT !.calls = Append(@, <<i, "insert_transactions">>)], file,
            insert_transactions(s.table, s.next_id, parsed.value, file.db))

\* lines 57-77: what the parser returned is reported as empty or handed to
\* insert_transactions
handle_parsed(s, file, i, parsed) ==
    IF parsed.raised
    THEN except_entry(s, file, parsed.error)
    ELSE IF parsed.value = <<>>
    THEN [s EXCEPT !.results = Append(@,
            result_entry(file.name, "Warning", 0, Text(<<"No valid transactions found">>)))]
    ELSE report_inserted([s EXCEPT !.calls = Append(@, <<i, "insert_transactions">>)], file,
            insert_transactions(s.table, s.next_id, parsed.value, file.db))

\* A variant of lines 48-55 in which read() and decode() are outside the try.
dispatch_read_error_escapes(s, file, i, content) ==
    IF content.raised
    THEN [s EXCEPT !.pc = "crashed"]
    ELSE IF endswith(lower(file.name), <<".","c","s","v">>)
    THEN handle_parsed([s EXCEPT !.calls = Append(@, <<i, "parse_bank_csv">>)], file, i,
            parse_bank_csv(content.value, file.name))
    ELSE handle_parsed([s EXCEPT !.calls = Append(@, <<i, "parse_bank_excel">>)], file, i,
            parse_bank_excel(content.value, file.name))

\* lines 48-55: the content that was read goes to the parser the extension
\* selects
dispatch(s, file, i, content) ==
    IF content.raised
    THEN except_entry(s, file, content.error)
    ELSE IF endswith(lower(file.name), <<".","c","s","v">>)
    THEN handle_parsed([s EXCEPT !.calls = Append(@, <<i, "parse_bank_csv">>)], file, i,
            parse_bank_csv(content.value, file.name))
    ELSE handle_parsed([s EXCEPT !.calls = Append(@, <<i, "parse_bank_excel">>)], file, i,
            parse_bank_excel(content.value, file.name))

\* The body of `for uploaded_file in uploaded_files` for the file at
\* position i, from the page state s = [results, total, table, next_id,
\* calls, pc]; `calls` logs the calls of the parsers and of the bulk insert.
upload_loop_body(s, file, i) ==
    IF ~validate_file_format(file.name)
    THEN [s EXCEPT !.results = Append(@,
            result_entry(file.name, "Failed", 0, Text(<<"Unsupported file format">>)))]
    ELSE dispatch(s, file, i, read_file(file))

\* len([r for r in processing_results if r['status'] == 'Success'])
successful_files(results) ==
    Len(SelectSeq(results, LAMBDA r : r.status = "Success"))

\* len([r for r in processing_results if r['status'] == 'Failed'])
failed_files(results) ==
    Len(SelectSeq(results, LAMBDA r : r.status = "Failed"))

-----------------------------------------------------------------------------
(* The uploads the batches are drawn from                                  *)

CsvTable(header, rows) == [kind |-> "table", header |-> header, rows |-> rows]
Workbook(grid) == [kind |-> "workbook", grid |-> grid]
Upload(name, content, db) == [name |-> name, content |-> content, db |-> db]

BlankRow == [i \in 1..12 |-> Blank]

\* one row of an American Express sheet: date, receipt, description, amount,
\* seven further columns, category
AmexRow(date, desc, amount, cat) ==
    <<date, Blank, desc, amount, Blank, Blank, Blank, Blank, Blank, Blank, Blank, cat>>

\* the example file of the upload page: two rows, both stored
GoodCsv ==
    Upload(<<"g","o","o","d",".","c","s","v">>,
        CsvTable(<<<<"T","r","a","n","s","a","c","t","i","o","n"," ","D","a","t","e">>, <<"D","e","s","c","r","i","p","t","i","o","n">>, <<"C","a","t","e","g","o","r","y">>, <<"T","y","p","e">>,
                   <<"A","m","o","u","n","t">>, <<"M","e","m","o">>>>,
            << <<DateCell(15), Str(<<"A","m","a","z","o","n",".","c","o","m","*","S","h","o","p","p","i","n","g">>), Str(<<"S","h","o","p","p","i","n","g">>),
                 Str(<<"S","a","l","e">>), Num(-45), Blank>>,
               <<DateCell(16), Str(<<" ","W","h","o","l","e"," ","F","o","o","d","s"," ">>), Str(<<"G","r","o","c","e","r","i","e","s">>),
                 Str(<<"S","a","l","e">>), Num(-89), Str(<<"w","e","e","k","l","y">>)>> >>),
        "ok")

\* an upper-case extension; the second of three rows has no amount and is
\* rejected by the store, the third has an unparseable amount
PartialCsv ==
    Upload(<<"B",".","C","S","V">>,
        CsvTable(<<<<"D","a","t","e">>, <<" ","d","e","s","c","r","i","p","t","i","o","n">>, <<"A","m","o","u","n","t">>>>,
            << <<DateCell(17), Str(<<"S","h","e","l","l"," ","G","a","s">>), Num(35)>>,
               <<DateCell(18), Str(<<"U","b","e","r"," ","E","a","t","s">>), Blank>>,
               <<Str(<<"n","/","a">>), Str(<<"A","T","M"," ","0","0","4","2">>), Str(<<"a","b","c">>)>> >>),
        "ok")

\* only rows without a description
BlankCsv ==
    Upload(<<"b","l","a","n","k",".","c","s","v">>,
        CsvTable(<<<<"D","a","t","e">>, <<"D","e","s","c","r","i","p","t","i","o","n">>, <<"A","m","o","u","n","t">>>>,
            << <<DateCell(3), Blank, Num(-5)>>,
               <<DateCell(4), Str(<<" "," ">>), Num(-6)>> >>),
        "ok")

\* one row, which the store rejects
NoAmountCsv ==
    Upload(<<"n","o","a","m","t",".","c","s","v">>,
        CsvTable(<<<<"D","a","t","e">>, <<"D","e","s","c","r","i","p","t","i","o","n">>, <<"A","m","o","u","n","t">>>>,
            << <<DateCell(5), Str(<<"c","o","s","t","c","o">>), Blank>> >>),
        "ok")

\* a supported content under an unsupported name
PdfFile ==
    Upload(<<"n","o","t","e","s",".","p","d","f">>,
        CsvTable(<<<<"D","a","t","e">>, <<"D","e","s","c","r","i","p","t","i","o","n">>, <<"A","m","o","u","n","t">>>>,
            << <<DateCell(6), Str(<<"N","e","t","f","l","i","x">>), Num(-12)>> >>),
        "ok")

\* bytes that are not UTF-8
UndecodableCsv == Upload(<<"b","a","d",".","c","s","v">>, [kind |-> "undecodable"], "ok")

\* a blank cell in the type column of the second row
BlankTypeCsv ==
    Upload(<<"t","y","p","e",".","c","s","v">>,
        CsvTable(<<<<"D","a","t","e">>, <<"D","e","s","c","r","i","p","t","i","o","n">>, <<"A","m","o","u","n","t">>, <<"T","y","p","e">>>>,
            << <<DateCell(7), Str(<<"C","V","S">>), Num(-9), Str(<<"S","a","l","e">>)>>,
               <<DateCell(8), Str(<<"L","y","f","t">>), Num(-14), Blank>> >>),
        "ok")

\* an American Express sheet: the headers in row 7, rows from row 8 on
AmexXlsx ==
    Upload(<<"a","m","e","x",".","x","l","s","x">>,
        Workbook(<< BlankRow, BlankRow, BlankRow, BlankRow, BlankRow, BlankRow,
            AmexRow(Str(<<"D","a","t","e">>), Str(<<"D","e","s","c","r","i","p","t","i","o","n">>), Str(<<"A","m","o","u","n","t">>), Str(<<"C","a","t","e","g","o","r","y">>)),
            AmexRow(DateCell(9), Str(<<"D","E","L","T","A"," ","A","I","R">>), Num(-300),
                    Str(<<"T","r","a","v","e","l","-","A","i","r","l","i","n","e">>)),
            AmexRow(DateCell(10), Blank, Num(-1), Blank),
            AmexRow(Blank, Str(<<"H","u","l","u">>), Num(-8), Blank),
            AmexRow(DateCell(11), Str(<<"H","a","l","l","m","a","r","k">>), Blank, Blank) >>),
        "ok")

\* an old binary workbook, which openpyxl cannot load
OldXls == Upload(<<"o","l","d",".","x","l","s">>, [kind |-> "not_a_workbook"], "ok")

\* good rows, but the commit fails
CommitFailsCsv ==
    Upload(<<"l","a","t","e",".","c","s","v">>,
        CsvTable(<<<<"D","a","t","e">>, <<"D","e","s","c","r","i","p","t","i","o","n">>, <<"A","m","o","u","n","t">>>>,
            << <<DateCell(13), Str(<<"S","p","o","t","i","f","y">>), Num(-10)>> >>),
        "commit_error")

\* The uploads a batch is drawn from.  A state holds the files of the batch
\* as positions in this sequence.
Uploads ==
    << GoodCsv, PartialCsv, BlankCsv, NoAmountCsv, PdfFile, UndecodableCsv,
       BlankTypeCsv, AmexXlsx, OldXls, CommitFailsCsv >>

\* the uploaded file a position of the batch stands for
FileOf(h) == Uploads[h]

\* the largest number of files of one batch
MaxFiles == 3

Batches == UNION { [1..n -> 1..Len(Uploads)] : n \in 1..MaxFiles }

\* src/database.py:89-109
default_categories ==
    << <<"Fixed", "expense">>, <<"Utilities", "expense">>, <<"Bills", "expense">>,
       <<"Groceries", "expense">>, <<"Eating out", "expense">>,
       <<"Household Goods", "expense">>, <<"Travel", "travel">>, <<"Gas", "expense">>,
       <<"Health", "expense">>, <<"Fun / Misc", "expense">>,
       <<"Business School", "expense">>, <<"Gifts", "expense">>, <<"Salary", "income">>,
       <<"Payments", "expense">>, <<"Martin's Paycheck", "income">>,
       <<"Rachel's Paycheck", "income">>, <<"Misc Income", "income">>,
       <<"Money from Mom", "income">>, <<"Uncategorized", "expense">> >>

\* the transaction the table holds before the batch
ManualEntry ==
    [ id |-> 1,
      transaction_date |-> [kind |-> "date", d |-> 1],
      post_date |-> NoDate,
      description |-> <<"R","e","n","t">>,
      category |-> "Bills",
      type |-> <<"D","e","b","i","t">>,
      amount |-> Num(-900),
      memo |-> <<>>,
      source_file |-> <<"M","a","n","u","a","l"," ","E","n","t","r","y">> ]

\* a row an earlier upload of good.csv stored
ImportedEarlier ==
    [ id |-> 2,
      transaction_date |-> [kind |-> "date", d |-> 3],
      post_date |-> NoDate,
      description |-> <<"S","a","f","e","w","a","y">>,
      category |-> "Groceries",
      type |-> <<"D","e","b","i","t">>,
      amount |-> Num(-40),
      memo |-> <<>>,
      source_file |-> <<"g","o","o","d",".","c","s","v">> ]

\* the other tables after init_database: the default categories only
DefaultTables ==
    [ recurring_expenses |-> <<>>,
      travel_budget |-> <<>>,
      income |-> <<>>,
      categories |-> default_categories ]

\* the other tables after some use of the other pages
UsedTables ==
    [ recurring_expenses |-> << [id |-> 1, name |-> <<"R","e","n","t">>, category |-> "Fixed",
                                 amount |-> 900, frequency |-> "monthly"] >>,
      travel_budget |-> << [id |-> 1, description |-> <<"T","r","i","p">>, amount |-> 500,
                            type |-> "allocation"] >>,
      income |-> << [id |-> 1, description |-> <<"P","a","y">>, source |-> "Salary",
                     amount |-> 3000] >>,
      categories |-> Append(default_categories, <<"Pets", "expense">>) ]

\* what the store holds when the page runs
PriorStores ==
    { [transactions |-> <<ManualEntry>>, others |-> DefaultTables],
      [transactions |-> <<ManualEntry, ImportedEarlier>>, others |-> UsedTables] }

-----------------------------------------------------------------------------
(* The state machine of the upload page                                    *)

PageState ==
    [ results |-> processing_results, total |-> total_inserted,
      table |-> transactions_table, next_id |-> next_id, calls |-> calls, pc |-> pc ]

ClassifierIdle ==
    /\ description = <<>>
    /\ category_result = NoResult
    /\ cpc = "idle"

InsertIdle ==
    /\ insert_arg = <<>>
    /\ insert_db = "ok"
    /\ insert_ret = Return(0)
    /\ ipc = "idle"

SessionIdle == classifier_calls = <<>>

ExtractIdle ==
    /\ extract_in = <<>>
    /\ extract_ret = Return(<<>>)
    /\ layout = "none"
    /\ epc = "idle"

ProrateIdle ==
    /\ prorate_in = <<>>
    /\ monthly_amount = NoResult
    /\ rpc = "idle"

ProvenanceIdle == store_log = <<>>

\* a connection: the table as its open transaction sees it
Closed == [open |-> FALSE, table |-> <<>>, next_id |-> 0]

\* no batch operation is under way, after n of them
NoBatch(n) == [kind |-> "none", todo |-> <<>>, arg |-> <<>>, before |-> <<>>, n |-> n]

BatchIdle ==
    /\ conn = Closed
    /\ batch_op = NoBatch(0)
    /\ observed = [table |-> <<>>, during |-> NoBatch(0)]

MassEditIdle ==
    /\ selected_transaction_ids = {}
    /\ description_filter = <<>>

\* nothing read by the dashboard yet
NoView == [month |-> <<>>, recurring_expenses |-> <<>>,
           recurring_total |-> [num |-> 0, den |-> 1]]

\* no form submitted yet
NoForm == [session |-> 0, kind |-> "none", amount |-> 0, description |-> <<>>,
           accepted |-> FALSE, n |-> 0]

\* the browser sessions of the Travel Budget page
TravelSessions == {1, 2}

LedgerIdle ==
    /\ recurring_view = NoView
    /\ travel_session = [s \in TravelSessions |-> [pc |-> "closed", current_balance |-> 0]]
    /\ travel_form = NoForm

PagesIdle ==
    /\ ProrateIdle
    /\ ProvenanceIdle
    /\ BatchIdle
    /\ MassEditIdle
    /\ LedgerIdle

UploadIdle ==
    /\ uploaded_files = <<>>
    /\ file_idx = 1
    /\ processing_results = <<>>
    /\ total_inserted = 0
    /\ transactions_table = <<>>
    /\ table_before = <<>>
    /\ next_id = 1
    /\ calls = <<>>
    /\ pc = "idle"

\* the page run starts: total_inserted = 0, processing_results = []
Init ==
    /\ uploaded_files \in Batches
    /\ file_idx = 1
    /\ processing_results = <<>>
    /\ total_inserted = 0
    /\ \E store \in PriorStores :
          /\ transactions_table = store.transactions
          /\ other_tables = store.others
    /\ table_before = transactions_table
    /\ next_id = Len(transactions_table) + 1
    /\ calls = <<>>
    /\ pc = "loop"
    /\ ClassifierIdle
    /\ InsertIdle
    /\ SessionIdle
    /\ ExtractIdle
    /\ PagesIdle

\* one iteration of `for uploaded_file in uploaded_files`
ProcessNextFile ==
    /\ pc = "loop"
    /\ file_idx <= Len(uploaded_files)
    /\ LET s == upload_loop_body(PageState, FileOf(uploaded_files[file_idx]), file_idx) IN
        /\ processing_results' = s.results
        /\ total_inserted' = s.total
        /\ transactions_table' = s.table
        /\ next_id' = s.next_id
        /\ calls' = s.calls
        /\ pc' = s.pc
    /\ file_idx' = file_idx + 1
    /\ UNCHANGED <<uploaded_files, table_before, cvars, ivars, other_tables, svars, evars, pvars>>

\* the loop is over: the import summary is shown
ShowSummary ==
    /\ pc = "loop"
    /\ file_idx > Len(uploaded_files)
    /\ pc' = "done"
    /\ UNCHANGED <<uploaded_files, file_idx, processing_results, total_inserted,
                   transactions_table, table_before, next_id, calls, cvars, ivars,
                   other_tables, svars, evars, pvars>>

Next == ProcessNextFile \/ ShowSummary

Spec == Init /\ [][Next]_vars

-----------------------------------------------------------------------------
(* One call of insert_transactions on a list of records                    *)

SampleRecord(day, desc, amount) ==
    [ transaction_date |-> day,
      post_date |-> NoDate,
      description |-> desc,
      category |-> categorize_transaction(desc),
      type |-> <<"D","e","b","i","t">>,
      amount |-> amount,
      memo |-> <<>>,
      source_file |-> <<"a",".","c","s","v">> ]

\* two records the store accepts and two it rejects
SampleRecords ==
    { SampleRecord([kind |-> "date", d |-> 2], <<"i","k","e","a">>, Num(-20)),
      SampleRecord([kind |-> "date", d |-> 3], <<"l","y","f","t">>, Num(0)),
      SampleRecord([kind |-> "date", d |-> 4], <<"c","v","s">>, NaNAmount),
      SampleRecord(NaT, <<"h","u","l","u">>, Num(-8)) }

\* the longest list handed to one call
MaxRecords == 3

RecordLists == UNION { [1..n -> SampleRecords] : n \in 0..MaxRecords }

InitInsert ==
    /\ uploaded_files = <<>>
    /\ file_idx = 1
    /\ processing_results = <<>>
    /\ total_inserted = 0
    /\ transactions_table \in { <<>>, <<ManualEntry>> }
    /\ table_before = transactions_table
    /\ next_id = Len(transactions_table) + 1
    /\ calls = <<>>
    /\ pc = "idle"
    /\ ClassifierIdle
    /\ insert_arg \in RecordLists
    /\ insert_db \in {"ok", "commit_error"}
    /\ insert_ret = Return(0)
    /\ ipc = "ready"
    /\ other_tables = DefaultTables
    /\ SessionIdle
    /\ ExtractIdle
    /\ PagesIdle

\* inserted_count = insert_transactions(insert_arg)
CallInsert ==
    /\ ipc = "ready"
    /\ LET r == insert_transactions(transactions_table, next_id, insert_arg, insert_db) IN
        IF r.raised
        THEN /\ insert_ret' = r
             /\ ipc' = "raised"
             /\ UNCHANGED <<transactions_table, next_id>>
        ELSE /\ insert_ret' = Return(r.value.inserted_count)
             /\ ipc' = "returned"
             /\ transactions_table' = r.value.table
             /\ next_id' = r.value.next_id
    /\ UNCHANGED <<uploaded_files, file_idx, processing_results, total_inserted,
                   table_before, calls, pc, cvars, insert_arg, insert_db,
                   other_tables, svars, evars, pvars>>

NextInsert == CallInsert

SpecInsert == InitInsert /\ [][NextInsert]_vars

-----------------------------------------------------------------------------
(* The classifier's inputs: descriptions built from the keywords           *)

Range(s) == {s[i] : i \in 1..Len(s)}

KeywordLists ==
    <<grocery_keywords, eating_out_keywords, household_keywords, gas_keywords,
      utility_keywords, health_keywords, travel_keywords, bills_keywords,
      fun_keywords, gift_keywords>>

AllKeywords == UNION {Range(KeywordLists[i]) : i \in 1..Len(KeywordLists)}

\* every keyword with its last character cut off
NearMisses == {SubSeq(k, 1, Len(k) - 1) : k \in AllKeywords}

PlainTexts ==
    { <<>>,
      <<"x","y","z">>,
      <<"A","T","M"," ","0","0","4","2">>,
      <<"Z","e","l","l","e"," ","t","o"," ","J","o">> }

HeadTexts == AllKeywords \cup NearMisses \cup PlainTexts

\* how many further words follow the head of a description
MaxTailWords == 1

TailWords ==
    { <<"s","a","f","e","w","a","y">>,
      <<"P","i","z","z","a">>,
      <<"i","k","e","a">>,
      <<"F","U","E","L">>,
      <<"w","a","t","e","r">>,
      <<"c","v","s">>,
      <<"L","y","f","t">>,
      <<"l","o","a","n">>,
      <<"h","u","l","u">>,
      <<"g","i","f","t">>,
      <<"z","q">> }

RECURSIVE TailsUpTo(_)
TailsUpTo(n) ==
    IF n = 0 THEN { <<>> }
    ELSE TailsUpTo(n - 1) \cup
         { t \o <<" ">> \o w : t \in TailsUpTo(n - 1), w \in TailWords }

CaseModes == {"asis", "upper"}

Recase(s, mode) ==
    CASE mode = "upper" -> upper(s)
      [] OTHER -> s

ClassifierInputs ==
    { Recase(h, m) \o t : h \in HeadTexts, m \in CaseModes, t \in TailsUpTo(MaxTailWords) }

InitClassify ==
    /\ UploadIdle
    /\ InsertIdle
    /\ description \in ClassifierInputs
    /\ category_result = NoResult
    /\ cpc = "ready"
    /\ other_tables = DefaultTables
    /\ SessionIdle
    /\ ExtractIdle
    /\ PagesIdle

\* one call of categorize_transaction(description)
Classify ==
    /\ cpc = "ready"
    /\ category_result' = categorize_transaction(description)
    /\ cpc' = "done"
    /\ UNCHANGED <<description, uvars, ivars, other_tables, svars, evars, pvars>>

NextClassify == Classify

SpecClassify == InitClassify /\ [][NextClassify]_vars

-----------------------------------------------------------------------------
(* One call of a parser on a file                                          *)

\* the most data rows of one file
MaxRows == 2

\* the header of a bank export with every column the extractor knows
FullHeader ==
    << <<"T","r","a","n","s","a","c","t","i","o","n"," ","D","a","t","e">>, <<"P","o","s","t"," ","D","a","t","e">>, <<"D","e","s","c","r","i","p","t","i","o","n">>, <<"C","a","t","e","g","o","r","y">>,
       <<"T","y","p","e">>, <<"A","m","o","u","n","t">>, <<"M","e","m","o">> >>

\* a header with a date, a description and an amount only
ShortHeader == << <<"D","a","t","e">>, <<" ","D","e","s","c","r","i","p","t","i","o","n"," ">>, <<"A","m","o","u","n","t">> >>

StandardHeaders == {FullHeader, ShortHeader}

\* rows under FullHeader: a complete row, a row without description, a row
\* with a description of spaces, a row without type, a row without amount,
\* a row whose date and amount are not a date and a number, a credit
StandardRowSamples ==
    { << DateCell(5), DateCell(6), Str(<<"A","m","a","z","o","n",".","c","o","m","*","S","h","o","p","p","i","n","g">>), Str(<<"S","h","o","p","p","i","n","g">>),
         Str(<<"S","a","l","e">>), Num(-25), Str(<<"o","r","d","e","r"," ","7">>) >>,
      << DateCell(6), Blank, Blank, Blank, Blank, Num(10), Blank >>,
      << DateCell(7), Blank, Str(<<" "," "," ">>), Str(<<"F","o","o","d">>), Str(<<"S","a","l","e">>), Num(-3), Blank >>,
      << DateCell(8), Blank, Str(<<" ","S","h","e","l","l"," ","G","a","s"," ">>), Str(<<"G","a","s">>), Blank, Num(35), Blank >>,
      << DateCell(9), Blank, Str(<<"C","o","s","t","c","o">>), Blank, Str(<<" ">>), Blank, Blank >>,
      << Str(<<"n","/","a">>), Blank, Str(<<"A","T","M"," ","0","0","4","2">>), Str(<<"G","r","o","c","e","r","i","e","s">>), Str(<<" "," ">>),
         Str(<<"a","b","c">>), Blank >>,
      << DateCell(10), Blank, Str(<<"P","a","y","r","o","l","l">>), Blank, Str(<<" ">>), Num(2000), Blank >> }

\* the cells of a row under a header
UnderHeader(row, header) ==
    IF header = FullHeader THEN row ELSE <<row[1], row[3], row[6]>>

RowListsOver(samples) == UNION { [1..n -> samples] : n \in 0..MaxRows }

StandardTables ==
    { [header |-> h,
       rows |-> SubSeq([k \in 1..Len(rows) |-> UnderHeader(rows[k], h)], 1, Len(rows))] :
        h \in StandardHeaders, rows \in RowListsOver(StandardRowSamples) }

HeaderCells(header) == SubSeq([i \in 1..Len(header) |-> Str(header[i])], 1, Len(header))

\* row 7 of a sheet: the American Express headers on twelve and on four
\* columns, three columns, "date" in lower case, no "Description", and
\* "Description" inside a longer title
Row7Samples ==
    { << Str(<<"D","a","t","e">>), Str(<<"R","e","c","e","i","p","t">>), Str(<<"D","e","s","c","r","i","p","t","i","o","n">>), Str(<<"A","m","o","u","n","t">>),
         Blank, Blank, Blank, Blank, Blank, Blank, Blank, Str(<<"C","a","t","e","g","o","r","y">>) >>,
      << Str(<<"D","a","t","e">>), Str(<<"R","e","c","e","i","p","t">>), Str(<<"D","e","s","c","r","i","p","t","i","o","n">>), Str(<<"A","m","o","u","n","t">>) >>,
      << Str(<<"D","a","t","e">>), Str(<<"D","e","s","c","r","i","p","t","i","o","n">>), Str(<<"A","m","o","u","n","t">>) >>,
      << Str(<<"d","a","t","e">>), Str(<<"R","e","c","e","i","p","t">>), Str(<<"D","e","s","c","r","i","p","t","i","o","n">>), Str(<<"A","m","o","u","n","t">>),
         Blank, Blank, Blank, Blank, Blank, Blank, Blank, Str(<<"C","a","t","e","g","o","r","y">>) >>,
      << Str(<<"D","a","t","e">>), Str(<<"R","e","c","e","i","p","t">>), Str(<<"D","e","t","a","i","l","s">>), Str(<<"A","m","o","u","n","t">>),
         Blank, Blank, Blank, Blank, Blank, Blank, Blank, Str(<<"C","a","t","e","g","o","r","y">>) >>,
      << Str(<<"D","a","t","e">>), Str(<<"R","e","c","e","i","p","t">>), Str(<<"E","x","t","e","n","d","e","d"," ","D","e","s","c","r","i","p","t","i","o","n">>), Str(<<"A","m","o","u","n","t">>),
         Blank, Blank, Blank, Blank, Blank, Blank, Blank, Str(<<"C","a","t","e","g","o","r","y">>) >> }

\* rows of an American Express sheet
AmexRowSamples ==
    { AmexRow(DateCell(5), Str(<<"D","E","L","T","A"," ","A","I","R">>), Num(-300), Str(<<"T","r","a","v","e","l","-","A","i","r","l","i","n","e">>)),
      AmexRow(DateCell(6), Str(<<"S","t","a","r","b","u","c","k","s">>), Num(-5), Blank),
      AmexRow(Blank, Str(<<"U","b","e","r">>), Num(-10), Blank),
      AmexRow(DateCell(7), Str(<<"R","e","f","u","n","d">>), Blank, Str(<<"O","t","h","e","r">>)),
      AmexRow(DateCell(8), Blank, Num(-7), Str(<<"G","r","o","c","e","r","i","e","s">>)),
      AmexRow(DateCell(8), Str(<<" "," ">>), Num(-7), Str(<<"G","r","o","c","e","r","i","e","s">>)),
      AmexRow(Str(<<"n","/","a">>), Str(<<"H","u","l","u">>), Num(-8), Str(<<"E","n","t","e","r","t","a","i","n","m","e","n","t">>)),
      AmexRow(DateCell(9), Str(<<"L","y","f","t">>), Str(<<"a","b","c">>), Blank),
      AmexRow(DateCell(10), Str(<<" ","S","a","f","e","w","a","y"," ">>), Num(-20),
              Str(<<" ","M","e","r","c","h","a","n","d","i","s","e"," ","&"," ","S","u","p","p","l","i","e","s","-","G","r","o","c","e","r","i","e","s"," ">>)),
      AmexRow(DateCell(11), Str(<<"A","T","M"," ","0","0","4","2">>), Num(40), Str(<<"O","t","h","e","r">>)) }

\* the first w cells of a row
Cut(row, w) == SubSeq(row, 1, w)

BlankRowOf(w) == SubSeq([i \in 1..w |-> Blank], 1, w)

\* a sheet with six rows above row 7 and the data rows from row 8 on
SheetOf(row7, rows) ==
    SubSeq([i \in 1..6 |-> BlankRowOf(Len(row7))], 1, 6) \o <<row7>>
        \o SubSeq([k \in 1..Len(rows) |-> Cut(rows[k], Len(row7))], 1, Len(rows))

StatementSheets ==
    { SheetOf(row7, rows) : row7 \in Row7Samples, rows \in RowListsOver(AmexRowSamples) }

\* a sheet whose first row is the header of a table
TableSheet(table) == <<HeaderCells(table.header)>> \o table.rows

ExtractInputs ==
    { Upload(<<"b","a","n","k",".","c","s","v">>, CsvTable(t.header, t.rows), "ok") : t \in StandardTables }
        \cup { Upload(<<"b","a","n","k",".","x","l","s","x">>, Workbook(TableSheet(t)), "ok") : t \in StandardTables }
        \cup { Upload(<<"a","m","e","x",".","x","l","s","x">>, Workbook(g), "ok") : g \in StatementSheets }

InitExtract ==
    /\ UploadIdle
    /\ ClassifierIdle
    /\ InsertIdle
    /\ SessionIdle
    /\ other_tables = DefaultTables
    /\ extract_in \in ExtractInputs
    /\ extract_ret = Return(<<>>)
    /\ layout = "none"
    /\ epc = "ready"
    /\ PagesIdle

\* transactions = parse_bank_csv(file_content, uploaded_file.name)
ExtractCsv ==
    /\ epc = "ready"
    /\ extract_in.content.kind = "table"
    /\ extract_ret' = parse_bank_csv(extract_in.content, extract_in.name)
    /\ layout' = "standard"
    /\ epc' = "done"
    /\ UNCHANGED <<uvars, cvars, ivars, other_tables, svars, extract_in, pvars>>

\* transactions = parse_bank_excel(file_content, uploaded_file.name)
ExtractExcel ==
    /\ epc = "ready"
    /\ extract_in.content.kind = "workbook"
    /\ extract_ret' = parse_bank_excel(extract_in.content, extract_in.name)
    /\ layout' = IF is_amex_format(extract_in.content.grid) THEN "amex" ELSE "standard"
    /\ epc' = "done"
    /\ UNCHANGED <<uvars, cvars, ivars, other_tables, svars, extract_in, pvars>>

NextExtract == ExtractCsv \/ ExtractExcel

SpecExtract == InitExtract /\ [][NextExtract]_vars

-----------------------------------------------------------------------------
(* A session: calls of the classifier between operations on the store      *)

\* the most calls of the classifier in one session
MaxCalls == 3

\* the most rows inserted in one session
MaxStoreRows == 2

SessionInputs == { <<"i","k","e","a">>, <<"A","T","M"," ","0","0","4","2">> }

SessionRecords == {r \in SampleRecords : insert_succeeds(r)}

SessionCategories == {"Gifts"}

\* the categories under which the store holds transactions described by d
CategoriesInStore(d) ==
    {transactions_table[k].category :
        k \in {k \in 1..Len(transactions_table) : transactions_table[k].description = d}}

InitSession ==
    /\ UploadIdle
    /\ ClassifierIdle
    /\ InsertIdle
    /\ ExtractIdle
    /\ PagesIdle
    /\ other_tables = DefaultTables
    /\ classifier_calls = <<>>

\* category = categorize_transaction(d), with the store as it is at the call
SessionClassify ==
    /\ Len(classifier_calls) < MaxCalls
    /\ \E d \in SessionInputs :
          /\ description' = d
          /\ category_result' = categorize_transaction(d)
          /\ cpc' = "done"
          /\ classifier_calls' = Append(classifier_calls,
                [description |-> d, category |-> categorize_transaction(d),
                 stored_as |-> CategoriesInStore(d)])
    /\ UNCHANGED <<uvars, ivars, other_tables, evars, pvars>>

\* insert_transactions([r])
SessionInsert ==
    /\ next_id <= MaxStoreRows
    /\ \E r \in SessionRecords :
          LET ret == insert_transactions(transactions_table, next_id, <<r>>, "ok") IN
          /\ transactions_table' = ret.value.table
          /\ next_id' = ret.value.next_id
    /\ UNCHANGED <<uploaded_files, file_idx, processing_results, total_inserted,
                   table_before, calls, pc, cvars, ivars, other_tables, svars, evars, pvars>>

\* update_transaction_category(id, category) from the categorize page
SessionRecategorize ==
    /\ \E k \in 1..Len(transactions_table), category \in SessionCategories :
          /\ transactions_table[k].category # category
          /\ transactions_table' =
                update_transaction_category(transactions_table,
                                            transactions_table[k].id, category)
    /\ UNCHANGED <<uploaded_files, file_idx, processing_results, total_inserted,
                   next_id, table_before, calls, pc, cvars, ivars, other_tables,
                   svars, evars, pvars>>

\* delete_transaction(id)
SessionDelete ==
    /\ \E k \in 1..Len(transactions_table) :
          transactions_table' =
              delete_transaction(transactions_table, transactions_table[k].id)
    /\ UNCHANGED <<uploaded_files, file_idx, processing_results, total_inserted,
                   next_id, table_before, calls, pc, cvars, ivars, other_tables,
                   svars, evars, pvars>>

NextSession ==
    SessionClassify \/ SessionInsert \/ SessionRecategorize \/ SessionDelete

SpecSession == InitSession /\ [][NextSession]_vars

-----------------------------------------------------------------------------
(* Claims about the upload page (specification Spec)                       *)

\* the file at position i of the batch
FileAt(i) == FileOf(uploaded_files[i])

\* the extension is one of .csv, .xlsx, .xls, whatever its case
SupportedName(name) ==
    \E ext \in {<<".","c","s","v">>, <<".","x","l","s","x">>, <<".","x","l","s">>} : endswith(lower(name), ext)

CsvName(name) == endswith(lower(name), <<".","c","s","v">>)

\* what reading and parsing a file gives: the records, or the error raised
ExtractionOf(file) ==
    IF read_file(file).raised THEN read_file(file)
    ELSE IF CsvName(file.name) THEN parse_bank_csv(file.content, file.name)
    ELSE parse_bank_excel(file.content, file.name)

\* the extraction of every upload, by its position in Uploads
UploadExtraction == [h \in 1..Len(Uploads) |-> ExtractionOf(Uploads[h])]

ExtractionAt(i) == UploadExtraction[uploaded_files[i]]

Unsupported(i) == ~SupportedName(FileAt(i).name)

ExtractionFails(i) == SupportedName(FileAt(i).name) /\ ExtractionAt(i).raised

ZeroRows(i) ==
    /\ SupportedName(FileAt(i).name)
    /\ ~ExtractionAt(i).raised
    /\ ExtractionAt(i).value = <<>>

RowsExtracted(i) ==
    /\ SupportedName(FileAt(i).name)
    /\ ~ExtractionAt(i).raised
    /\ ExtractionAt(i).value # <<>>

Processed == 1..Len(processing_results)

FailedWith(i, parts) ==
    processing_results[i] =
        [filename |-> FileAt(i).name, status |-> "Failed", transactions |-> 0,
         error |-> Text(parts)]

IsWarning(i) ==
    processing_results[i] =
        [filename |-> FileAt(i).name, status |-> "Warning", transactions |-> 0,
         error |-> Text(<<"No valid transactions found">>)]

IsSuccess(i) ==
    /\ processing_results[i].filename = FileAt(i).name
    /\ processing_results[i].status = "Success"
    /\ processing_results[i].transactions >= 1
    /\ processing_results[i].error = None

\* the four outcomes of the state machine, each in its case
FourOutcomes(i) ==
    /\ Unsupported(i) => FailedWith(i, <<"Unsupported file format">>)
    /\ ExtractionFails(i) => FailedWith(i, ExtractionAt(i).error)
    /\ ZeroRows(i) => IsWarning(i)
    /\ RowsExtracted(i) => IsSuccess(i)

\* the outcomes of the code: rows were extracted and the insert raised, or
\* it stored none of them, or it stored n >= 1
FiveOutcomes(i) ==
    /\ Unsupported(i) => FailedWith(i, <<"Unsupported file format">>)
    /\ ExtractionFails(i) => FailedWith(i, ExtractionAt(i).error)
    /\ ZeroRows(i) => IsWarning(i)
    /\ RowsExtracted(i) =>
          \/ IsSuccess(i)
          \/ FailedWith(i, <<"Database insertion failed">>)
          \/ /\ FileAt(i).db = "commit_error"
             /\ FailedWith(i, <<"database is locked">>)

\* C1 as stated: every processed file ends in one of four outcomes, Failed
\* (unsupported extension), Failed (parse error, message captured), Warning
\* (zero rows) or Success (n rows inserted).
C1_FourOutcomesOnly == \A i \in Processed : FourOutcomes(i)

\* C1, amended: a file is pending until the loop reaches it and then has
\* exactly one entry, which is Failed (unsupported extension), Failed (error
\* while reading, parsing or inserting, message captured), Failed ("Database
\* insertion failed": rows were extracted and none was stored), Warning (zero
\* rows) or Success (n >= 1 rows inserted); the entry is never changed and
\* the loop never goes back to a file.
C1_OutcomesOfTheCode ==
    /\ [](/\ Len(processing_results) = file_idx - 1
          /\ file_idx <= Len(uploaded_files) + 1
          /\ \A i \in Processed : FiveOutcomes(i))
    /\ [][/\ file_idx' >= file_idx
          /\ Len(processing_results') <= Len(processing_results) + 1
          /\ \A i \in Processed : processing_results'[i] = processing_results[i]]_vars

\* a batch of three is over: rows stored, then a file of which the store
\* took no row, then a file without rows
C1_Witness ==
    /\ pc = "done"
    /\ Len(processing_results) = 3
    /\ IsSuccess(1)
    /\ RowsExtracted(2) /\ FailedWith(2, <<"Database insertion failed">>)
    /\ IsWarning(3)

Drop(seq, i) == SubSeq(seq, 1, i - 1) \o SubSeq(seq, i + 1, Len(seq))

\* the page state a run of the loop starts from
StartOfBatch ==
    [ results |-> <<>>, total |-> 0, table |-> table_before,
      next_id |-> Len(table_before) + 1, calls |-> <<>>, pc |-> "loop" ]

\* the loop over a whole batch
RECURSIVE RunBatch(_, _, _)
RunBatch(s, batch, i) ==
    IF i > Len(batch) \/ s.pc # "loop" THEN s
    ELSE RunBatch(upload_loop_body(s, FileOf(batch[i]), i), batch, i + 1)

\* C2: when the loop is over the report has one entry per file, in upload
\* order, and for every file that failed, the entries, the stored rows and
\* the total of the others are those of the batch without that file.
C2_FailedFileLeavesOthersAlone ==
    pc # "loop" =>
        /\ Len(processing_results) = Len(uploaded_files)
        /\ \A i \in Processed : processing_results[i].filename = FileAt(i).name
        /\ \A i \in Processed :
              processing_results[i].status = "Failed" =>
                  LET alone == RunBatch(StartOfBatch, Drop(uploaded_files, i), 1) IN
                  /\ alone.results = Drop(processing_results, i)
                  /\ alone.table = transactions_table
                  /\ alone.total = total_inserted

\* three files, the second with an unsupported extension, the first and the
\* third stored
C2_Witness ==
    /\ pc = "done"
    /\ Len(processing_results) = 3
    /\ IsSuccess(1)
    /\ Unsupported(2) /\ FailedWith(2, <<"Unsupported file format">>)
    /\ IsSuccess(3)

RECURSIVE SumOfCounts(_)
SumOfCounts(results) ==
    IF results = <<>> THEN 0
    ELSE Head(results).transactions + SumOfCounts(Tail(results))

\* C3: the count of a file is the number of rows its bulk insert stored, and
\* the grand total is the sum of the counts of the report and the number of
\* rows added to the table since the batch started.
C3_CountsAreStoredRows ==
    /\ [](/\ total_inserted = SumOfCounts(processing_results)
          /\ total_inserted = Len(transactions_table) - Len(table_before))
    /\ [][Len(processing_results') = Len(processing_results) + 1 =>
            processing_results'[Len(processing_results')].transactions
                = Len(transactions_table') - Len(transactions_table)]_vars

\* a file of which more rows were extracted than stored has been reported
C3_Witness ==
    /\ pc = "done"
    /\ \E i \in Processed :
          /\ IsSuccess(i)
          /\ processing_results[i].transactions < Len(ExtractionAt(i).value)
    /\ total_inserted >= 3

\* the insert of the rows of file i raises
InsertRaises(i) == RowsExtracted(i) /\ FileAt(i).db = "commit_error"

\* C4: no exception leaves the loop: a failure of reading, decoding, parsing
\* or inserting is the Failed entry of its file with the error text, and the
\* loop goes on to the next file and to the summary.
C4_NoExceptionEscapes ==
    /\ pc \in {"loop", "done"}
    /\ Len(processing_results) = file_idx - 1
    /\ pc = "done" => Len(processing_results) = Len(uploaded_files)
    /\ \A i \in Processed :
          /\ ExtractionFails(i) => FailedWith(i, ExtractionAt(i).error)
          /\ InsertRaises(i) => FailedWith(i, <<"database is locked">>)

\* a file that cannot be decoded, one the CSV parser fails on and one whose
\* insert raises have been reported, and the summary is reached
C4_Witness ==
    /\ pc = "done"
    /\ Len(processing_results) = 3
    /\ FileAt(1).content.kind = "undecodable" /\ ExtractionFails(1)
    /\ FileAt(2).content.kind = "table" /\ ExtractionFails(2)
    /\ processing_results[2].error.text[1] = "Error parsing CSV file: "
    /\ InsertRaises(3)

CallsOf(i) == {calls[k][2] : k \in {k \in 1..Len(calls) : calls[k][1] = i}}

\* the step that processes a file for which P holds
StepOn(P(_)) ==
    /\ Len(processing_results') = Len(processing_results) + 1
    /\ P(Len(processing_results'))

StoreUnchanged ==
    /\ transactions_table' = transactions_table
    /\ next_id' = next_id
    /\ total_inserted' = total_inserted

\* C6: a name that does not end in .csv, .xlsx or .xls (in any case) is
\* Failed with "Unsupported file format" and count 0, without a call of a
\* parser or of the bulk insert and without a change of the store; a
\* supported name goes to the CSV parser if it ends in .csv and to the Excel
\* parser otherwise.
C6_ExtensionDecides ==
    /\ [](\A i \in Processed :
            /\ Unsupported(i) =>
                  FailedWith(i, <<"Unsupported file format">>) /\ CallsOf(i) = {}
            /\ SupportedName(FileAt(i).name) /\ CsvName(FileAt(i).name) =>
                  /\ "parse_bank_excel" \notin CallsOf(i)
                  /\ ~read_file(FileAt(i)).raised => "parse_bank_csv" \in CallsOf(i)
            /\ SupportedName(FileAt(i).name) /\ ~CsvName(FileAt(i).name) =>
                  /\ "parse_bank_csv" \notin CallsOf(i)
                  /\ "parse_bank_excel" \in CallsOf(i))
    /\ [][StepOn(Unsupported) => StoreUnchanged /\ calls' = calls]_vars

\* an unsupported file, an upper-case .CSV and an .xls have been processed
C6_Witness ==
    /\ pc = "done"
    /\ Len(processing_results) = 3
    /\ Unsupported(1) /\ FailedWith(1, <<"Unsupported file format">>)
    /\ FileAt(2).name = <<"B",".","C","S","V">> /\ CallsOf(2) = {"parse_bank_csv", "insert_transactions"}
    /\ FileAt(3).name = <<"o","l","d",".","x","l","s">> /\ CallsOf(3) = {"parse_bank_excel"}

\* C7: a file whose extraction succeeds with zero records is a Warning ("No
\* valid transactions found") with count 0; it is not among the failed files
\* of the summary, the bulk insert is not called for it and the store is
\* unchanged.
C7_ZeroRowsIsAWarning ==
    /\ [](/\ \A i \in Processed :
                ZeroRows(i) => IsWarning(i) /\ "insert_transactions" \notin CallsOf(i)
          /\ failed_files(processing_results) =
                Cardinality({i \in Processed :
                    ~ZeroRows(i) /\ processing_results[i].status = "Failed"}))
    /\ [][StepOn(ZeroRows) => StoreUnchanged]_vars

\* a file without rows and a failed file have been reported
C7_Witness ==
    /\ pc = "done"
    /\ Len(processing_results) = 2
    /\ ZeroRows(1) /\ IsWarning(1)
    /\ failed_files(processing_results) = 1
    /\ successful_files(processing_results) = 0

NonEmptyText(error) ==
    /\ ~error.none
    /\ \E k \in 1..Len(error.text) : error.text[k] # ""

\* C8: every entry has the fields filename, status, transactions and error;
\* a Failed or Warning entry has a non-empty error text and count 0, a
\* Success entry a count of at least 1 and no error.
C8_EntriesAreComplete ==
    \A i \in Processed :
        LET r == processing_results[i] IN
        /\ DOMAIN r = {"filename", "status", "transactions", "error"}
        /\ r.status \in {"Failed", "Warning", "Success"}
        /\ r.status \in {"Failed", "Warning"} =>
              NonEmptyText(r.error) /\ r.transactions = 0
        /\ r.status = "Success" => r.transactions >= 1 /\ r.error = None

\* a report with a Failed, a Warning and a Success entry
C8_Witness ==
    /\ pc = "done"
    /\ {processing_results[i].status : i \in Processed}
          = {"Failed", "Warning", "Success"}

-----------------------------------------------------------------------------
(* Claims about the bulk insert (specification SpecInsert)                 *)

\* the INSERT of the record fails: NULL in a NOT NULL column, or a value
\* that cannot be bound
StatementFails(t) == t.amount.kind = "nan" \/ t.transaction_date.kind # "date"

RowsAdded == SubSeq(transactions_table, Len(table_before) + 1, Len(transactions_table))

StoredAs(row, t, id) ==
    /\ row.id = id
    /\ \A f \in DOMAIN t : row[f] = t[f]

\* C5: the bulk insert skips and does not count a record whose insert fails,
\* stores every other record of the list, before and after it, and returns
\* the number of records added to the table.
C5_BulkInsertIsBestEffort ==
    ipc = "returned" =>
        LET kept == SelectSeq(insert_arg, LAMBDA t : ~StatementFails(t)) IN
        /\ SubSeq(transactions_table, 1, Len(table_before)) = table_before
        /\ insert_ret.value = Len(RowsAdded)
        /\ Len(RowsAdded) = Len(kept)
        /\ \A k \in 1..Len(kept) :
              StoredAs(RowsAdded[k], kept[k], Len(table_before) + k)

\* of three records the second was rejected and the other two are stored
C5_Witness ==
    /\ ipc = "returned"
    /\ Len(insert_arg) = 3
    /\ ~StatementFails(insert_arg[1])
    /\ StatementFails(insert_arg[2])
    /\ ~StatementFails(insert_arg[3])
    /\ insert_ret.value = 2
    /\ Len(RowsAdded) = 2

-----------------------------------------------------------------------------
(* Claims about the classifier                                             *)

ClaimedOrder ==
    << [label |-> "Groceries",       keywords |-> grocery_keywords],
       [label |-> "Eating out",      keywords |-> eating_out_keywords],
       [label |-> "Household Goods", keywords |-> household_keywords],
       [label |-> "Gas",             keywords |-> gas_keywords],
       [label |-> "Utilities",       keywords |-> utility_keywords],
       [label |-> "Health",          keywords |-> health_keywords],
       [label |-> "Travel",          keywords |-> travel_keywords],
       [label |-> "Bills",           keywords |-> bills_keywords],
       [label |-> "Fun / Misc",      keywords |-> fun_keywords],
       [label |-> "Gifts",           keywords |-> gift_keywords] >>

CategoryLabels == {ClaimedOrder[i].label : i \in 1..Len(ClaimedOrder)}

\* the lists of which some keyword occurs in the case-folded description
MatchingLists(d) ==
    LET folded == lower(d) IN
    {i \in 1..Len(ClaimedOrder) :
        \E kw \in Range(ClaimedOrder[i].keywords) : Contains(kw, folded)}

FirstOf(S) == CHOOSE i \in S : \A j \in S : i <= j

\* C9: the classifier returns the category of the first list, in the order
\* Groceries, Eating out, Household Goods, Gas, Utilities, Health, Travel,
\* Bills, Fun / Misc, Gifts, that holds a keyword occurring as a substring of
\* the case-folded description: one matching list gives that list's
\* category, two or more give the category of the earliest.
C9_FirstMatchingListWins ==
    cpc = "done" =>
        LET M == MatchingLists(description) IN
        M # {} => category_result = ClaimedOrder[FirstOf(M)].label

\* a mixed-case description matching Groceries, Household Goods and a later
\* list has been classified
C9_Witness ==
    /\ cpc = "done"
    /\ description # lower(description)
    /\ {1, 3} \subseteq MatchingLists(description)
    /\ Cardinality(MatchingLists(description)) >= 3
    /\ category_result = "Groceries"

\* C10: a description holding no keyword of any list is classified
\* "Uncategorized", no other description is, and the result is always one of
\* the ten labels or "Uncategorized", never null.
C10_UncategorizedIffNoMatch ==
    cpc = "done" =>
        /\ category_result # NoResult
        /\ category_result \in CategoryLabels \cup {"Uncategorized"}
        /\ (category_result = "Uncategorized") <=> (MatchingLists(description) = {})

\* a non-empty description without any keyword has been classified
C10_Witness ==
    /\ cpc = "done"
    /\ Len(description) > 0
    /\ MatchingLists(description) = {}
    /\ category_result = "Uncategorized"

-----------------------------------------------------------------------------
(* Claims about the store during a batch (specification Spec)              *)

\* C20: ingestion only appends: in every step of a batch the rows the
\* transactions table holds stay where they are with all their fields, so
\* every row that existed before the batch is still there after it, and the
\* recurring_expenses, travel_budget, income and categories tables do not
\* change.
C20_IngestionOnlyAppends ==
    /\ [](/\ Len(transactions_table) >= Len(table_before)
          /\ SubSeq(transactions_table, 1, Len(table_before)) = table_before)
    /\ [][/\ other_tables' = other_tables
          /\ Len(transactions_table') >= Len(transactions_table)
          /\ \A k \in 1..Len(transactions_table) :
                transactions_table'[k] = transactions_table[k]]_vars

\* good.csv is uploaded again into a store that holds a row of an earlier
\* upload of good.csv, and its rows have been added
C20_Witness ==
    /\ pc = "done"
    /\ table_before = <<ManualEntry, ImportedEarlier>>
    /\ other_tables = UsedTables
    /\ \E i \in Processed : FileAt(i).name = <<"g","o","o","d",".","c","s","v">> /\ IsSuccess(i)
    /\ Len(transactions_table) > Len(table_before)

-----------------------------------------------------------------------------
(* Claims about the classifier in a session (specification SpecSession)    *)

-----------------------------------------------------------------------------
(* Claims about the parsers (specification SpecExtract)                    *)

ExcelDone == epc = "done" /\ extract_in.content.kind = "workbook"

\* row 7 of the sheet that was parsed; a sheet that ends above row 7 has
\* blank cells there
Row7 ==
    IF Len(extract_in.content.grid) >= 7 THEN extract_in.content.grid[7]
    ELSE BlankRowOf(SheetWidth(extract_in.content.grid))

\* column 1 of row 7 is exactly "Date" and a cell of row 7 holds "Description"
Row7HasSignature ==
    /\ Row7[1] = Str(<<"D","a","t","e">>)
    /\ \E i \in 1..Len(Row7) : Row7[i].kind = "str" /\ Contains(<<"D","e","s","c","r","i","p","t","i","o","n">>, Row7[i].s)

\* C12 as stated: a sheet with the signature in row 7 goes to the
\* bank-specific extractor whatever its number of columns, every other sheet
\* to the standard extractor.
C12_Row7AloneDecides ==
    ExcelDone => layout = (IF Row7HasSignature THEN "amex" ELSE "standard")

\* C12, amended: layout detection never fails; a sheet goes to the
\* bank-specific extractor exactly when row 7 has at least four cells, its
\* column 1 is exactly "Date" and its contents include "Description", and to
\* the standard extractor otherwise.
C12_Row7OfFourColumnsDecides ==
    ExcelDone =>
        /\ layout \in {"amex", "standard"}
        /\ layout = "amex" <=> (Len(Row7) >= 4 /\ Row7HasSignature)

\* a sheet of four columns with the signature went to the bank-specific
\* extractor
C12_Witness ==
    /\ ExcelDone
    /\ Len(Row7) = 4
    /\ Row7HasSignature
    /\ Len(extract_in.content.grid) > 7
    /\ layout = "amex"

\* the parser the upload page calls for the content
ParseOf(content) ==
    IF content.kind = "table" THEN parse_bank_csv(content, extract_in.name)
    ELSE parse_bank_excel(content, extract_in.name)

Extracted == epc = "done" /\ ~extract_ret.raised

\* the columns of the table the standard extractor reads
Columns ==
    IF extract_in.content.kind = "table"
    THEN normalize_columns(extract_in.content.header)
    ELSE normalize_columns(excel_header(extract_in.content.grid))

\* the rows the extractor that was chosen loops over
DataRows ==
    IF extract_in.content.kind = "table" THEN extract_in.content.rows
    ELSE IF layout = "amex"
    THEN SubSeq(extract_in.content.grid, 8, Len(extract_in.content.grid))
    ELSE Tail(extract_in.content.grid)

\* the content with other data rows
WithRows(rows) ==
    IF extract_in.content.kind = "table" THEN [extract_in.content EXCEPT !.rows = rows]
    ELSE IF layout = "amex"
    THEN Workbook(SubSeq(extract_in.content.grid, 1, 7) \o rows)
    ELSE Workbook(<<Head(extract_in.content.grid)>> \o rows)

\* the cell of a column of the table, blank when the table has no such column
CellOf(row, column) ==
    IF HasColumn(Columns, column) THEN row[ColumnIndex(Columns, column)] ELSE Blank

\* the description cell of a data row
DescriptionCell(row) ==
    IF layout = "amex" THEN row[3] ELSE CellOf(row, COL_description)

\* the cell is missing, empty or holds white space only
BlankCell(cell) ==
    \/ cell.kind = "blank"
    \/ cell.kind = "str" /\ strip(cell.s) = <<>>

Described(row) == ~BlankCell(DescriptionCell(row))

\* C13: in the standard and in the bank-specific extractor a row whose
\* description is missing, blank or white space emits no record and leaves
\* the other rows alone: the file gives what it gives without these rows;
\* every emitted record has a non-empty, trimmed description.
C13_BlankDescriptionRowsAreDropped ==
    epc = "done" =>
        /\ ParseOf(WithRows(SelectSeq(DataRows, Described))) = extract_ret
        /\ ~extract_ret.raised =>
              /\ Len(extract_ret.value) <= Len(SelectSeq(DataRows, Described))
              /\ \A k \in 1..Len(extract_ret.value) :
                    /\ extract_ret.value[k].description # <<>>
                    /\ strip(extract_ret.value[k].description)
                          = extract_ret.value[k].description

\* a row with a description of spaces, then a row that is emitted
C13_Witness ==
    /\ Extracted
    /\ Len(DataRows) = 2
    /\ DescriptionCell(DataRows[1]).kind = "str"
    /\ ~Described(DataRows[1])
    /\ Described(DataRows[2])
    /\ Len(extract_ret.value) = 1
    /\ extract_ret.value[1].description = strip(DescriptionCell(DataRows[2]).s)

StandardDone == epc = "done" /\ layout = "standard"

DescribedRows == SelectSeq(DataRows, Described)

\* the text of a cell that holds text
TextOf(cell) == IF cell.kind = "str" THEN cell.s ELSE <<>>

InferredType(record) == IF IsPositive(record.amount) THEN <<"C","r","e","d","i","t">> ELSE <<"D","e","b","i","t">>

\* C14: in the standard extractor every row with a non-blank description is
\* emitted; its type is the text of its type cell when the file has a type
\* column and the cell is not blank, and otherwise, when the column is
\* absent or the cell is blank, "Credit" if amount > 0 and "Debit" if not.
C14_TypeVerbatimOrInferred ==
    StandardDone =>
        /\ ~extract_ret.raised
        /\ Len(extract_ret.value) = Len(DescribedRows)
        /\ \A k \in 1..Len(DescribedRows) :
              LET type_cell == CellOf(DescribedRows[k], COL_type) IN
              extract_ret.value[k].type =
                  IF BlankCell(type_cell) THEN InferredType(extract_ret.value[k])
                  ELSE strip(TextOf(type_cell))

\* the text is a whole number with an optional sign
NumberText(s) ==
    LET t == strip(s)
        body == IF t # <<>> /\ Head(t) \in {"-", "+"} THEN Tail(t) ELSE t
    IN  body # <<>> /\ \A i \in 1..Len(body) : body[i] \in Range(Digits)

\* the amount cell is missing or is no number
NoAmount(cell) ==
    \/ cell.kind = "blank"
    \/ cell.kind = "str" /\ ~NumberText(cell.s)

\* C15: when the standard extractor returns, every row with a non-blank
\* description is emitted, and the record of a row whose amount cell is
\* missing or is no number has amount 0.0.
C15_BadAmountIsZero ==
    StandardDone /\ ~extract_ret.raised =>
        /\ Len(extract_ret.value) = Len(DescribedRows)
        /\ \A k \in 1..Len(DescribedRows) :
              NoAmount(CellOf(DescribedRows[k], COL_amount)) =>
                  extract_ret.value[k].amount = Num(0)

\* what the category column of another file may hold
OtherCategoryCells == {Blank, Str(<<"G","r","o","c","e","r","i","e","s">>), Num(7)}

\* the row with another cell in the category column
WithCategory(row, cell) ==
    IF HasColumn(Columns, COL_category)
    THEN [row EXCEPT ![ColumnIndex(Columns, COL_category)] = cell]
    ELSE row

\* the data rows with the same cell in the category column of every row
Recategorized(cell) ==
    SubSeq([k \in 1..Len(DataRows) |-> WithCategory(DataRows[k], cell)], 1, Len(DataRows))

\* C16: in the standard extractor the category of every emitted record is
\* the classifier's result on the record's description, and a file that
\* differs only in its category column gives the same result.
C16_CategoryComesFromDescription ==
    StandardDone =>
        /\ ~extract_ret.raised =>
              \A k \in 1..Len(extract_ret.value) :
                  extract_ret.value[k].category
                      = categorize_transaction(extract_ret.value[k].description)
        /\ \A cell \in OtherCategoryCells :
              ParseOf(WithRows(Recategorized(cell))) = extract_ret

\* "Amazon.com*Shopping" with the file's category "Shopping" is emitted as
\* Household Goods
C16_Witness ==
    /\ StandardDone
    /\ ~extract_ret.raised
    /\ Len(DataRows) >= 1
    /\ CellOf(DataRows[1], COL_category) = Str(<<"S","h","o","p","p","i","n","g">>)
    /\ Len(extract_ret.value) >= 1
    /\ extract_ret.value[1].description = <<"A","m","a","z","o","n",".","c","o","m","*","S","h","o","p","p","i","n","g">>
    /\ extract_ret.value[1].category = "Household Goods"

AmexDone == epc = "done" /\ layout = "amex"

\* the date cell holds a date
DateParses(cell) == cell.kind = "date"

\* the amount cell holds a number or the text of one
AmountParses(cell) ==
    \/ cell.kind = "num"
    \/ cell.kind = "str" /\ NumberText(cell.s)

\* the amount cell is empty
EmptyAmount(cell) == cell.kind = "blank" \/ cell = Str(<<>>)

\* the rows the claim has emitted
StrictRows ==
    SelectSeq(DataRows, LAMBDA row :
        Described(row) /\ DateParses(row[1]) /\ AmountParses(row[4]))

\* the rows the code emits
LenientRows ==
    SelectSeq(DataRows, LAMBDA row :
        /\ Len(row) >= 12
        /\ Described(row)
        /\ DateParses(row[1])
        /\ AmountParses(row[4]) \/ EmptyAmount(row[4]))

\* the parser returned one record per row of rows, in order, with the
\* description, the date and the amount of the row, 0.0 for an empty amount
EmittedExactly(rows) ==
    /\ ~extract_ret.raised
    /\ Len(extract_ret.value) = Len(rows)
    /\ \A k \in 1..Len(rows) :
          /\ extract_ret.value[k].description = strip(TextOf(rows[k][3]))
          /\ extract_ret.value[k].transaction_date = [kind |-> "date", d |-> rows[k][1].d]
          /\ extract_ret.value[k].amount =
                IF EmptyAmount(rows[k][4]) THEN Num(0)
                ELSE IF rows[k][4].kind = "num" THEN rows[k][4]
                ELSE float_of(rows[k][4]).value

LabelOf(row) ==
    IF row[12].kind = "str" THEN strip(row[12].s) ELSE <<>>

\* the keys of the bank category map the label contains, whatever the case
KeysIn(label) ==
    {i \in 1..Len(category_mapping) :
        Contains(lower(category_mapping[i][1]), lower(label))}

\* C19: the category of a record of the bank-specific extractor is the
\* mapped label of the first key, in map order, that the bank's label
\* contains in any case, whatever the description says; without such a key
\* it is the classifier's result on the description, "Uncategorized" only
\* when no keyword matches either; memo is the bank's label.
C19_BankLabelThenClassifier ==
    AmexDone /\ ~extract_ret.raised /\ Len(extract_ret.value) = Len(LenientRows) =>
        \A k \in 1..Len(LenientRows) :
            LET label == LabelOf(LenientRows[k])
                record == extract_ret.value[k]
            IN  /\ record.memo = label
                /\ KeysIn(label) # {} =>
                      record.category = category_mapping[FirstOf(KeysIn(label))][2]
                /\ KeysIn(label) = {} =>
                      /\ record.category = categorize_transaction(record.description)
                      /\ record.category = "Uncategorized" <=>
                            MatchingLists(record.description) = {}

\* "Safeway" under the label "Merchandise & Supplies-Groceries", which
\* contains two keys, is Household Goods, and "ATM 0042" under "Other" is
\* Uncategorized
C19_Witness ==
    /\ AmexDone
    /\ Len(extract_ret.value) = 2
    /\ extract_ret.value[1].description = <<"S","a","f","e","w","a","y">>
    /\ Cardinality(KeysIn(extract_ret.value[1].memo)) = 2
    /\ extract_ret.value[1].category = "Household Goods"
    /\ categorize_transaction(extract_ret.value[1].description) = "Groceries"
    /\ extract_ret.value[2].memo = <<"O","t","h","e","r">>
    /\ extract_ret.value[2].category = "Uncategorized"

-----------------------------------------------------------------------------
(* Prorating a recurring amount to a month                                 *)

\* Amounts are exact fractions num/den in lowest terms, den > 0.
RECURSIVE Gcd(_, _)
Gcd(a, b) == IF b = 0 THEN a ELSE Gcd(b, a % b)

Abs(n) == IF n < 0 THEN -n ELSE n

Ratio(n, d) ==
    LET g == Gcd(Abs(n), d) IN [num |-> n \div g, den |-> d \div g]

Times(x, y) == Ratio(x.num * y.num, x.den * y.den)

frequency_multipliers ==
    << <<"monthly",       Ratio(1, 1)>>,
       <<"quarterly",     Ratio(1, 3)>>,
       <<"semi-annually", Ratio(1, 6)>>,
       <<"annually",      Ratio(1, 12)>> >>

\* d.get(key, default) on a dict kept as a sequence of <<key, value>>
dict_get(d, key, default) ==
    LET at == {i \in 1..Len(d) : d[i][1] = key} IN
    IF at = {} THEN default ELSE d[CHOOSE i \in at : TRUE][2]

\* A variant that takes "semi-annually" for half of the amount.
calculate_prorated_amount_half(amount, frequency) ==
    IF frequency = "semi-annually" THEN Times(amount, Ratio(1, 2))
    ELSE Times(amount, dict_get(frequency_multipliers, frequency, Ratio(1, 1)))

calculate_prorated_amount(amount, frequency) ==
    Times(amount, dict_get(frequency_multipliers, frequency, Ratio(1, 1)))

\* the largest amount prorated, in whole units and in hundredths
MaxAmount == 12

ProrateAmounts == {Ratio(n, d) : n \in -2..MaxAmount, d \in {1, 100}}

\* the four frequencies of the recurring-expense form and other strings
ProrateFrequencies ==
    {"monthly", "quarterly", "semi-annually", "annually",
     "Monthly", "weekly", "yearly", ""}

InitProrate ==
    /\ UploadIdle
    /\ ClassifierIdle
    /\ InsertIdle
    /\ SessionIdle
    /\ ExtractIdle
    /\ other_tables = DefaultTables
    /\ ProvenanceIdle
    /\ BatchIdle
    /\ MassEditIdle
    /\ LedgerIdle
    /\ prorate_in \in [amount : ProrateAmounts, frequency : ProrateFrequencies]
    /\ monthly_amount = NoResult
    /\ rpc = "ready"

\* monthly_amount = calculate_prorated_amount(amount, frequency)
Prorate ==
    /\ rpc = "ready"
    /\ rpc' = "done"
    /\ monthly_amount' = calculate_prorated_amount(prorate_in.amount, prorate_in.frequency)
    /\ UNCHANGED <<stvars, other_tables, prorate_in, dvars, bvars, mvars, lvars>>

NextProrate == Prorate

SpecProrate == InitProrate /\ [][NextProrate]_vars

\* the number of months the claim gives a frequency
MonthsOf(frequency) ==
    CASE frequency = "monthly" -> 1
      [] frequency = "quarterly" -> 3
      [] frequency = "semi-annually" -> 6
      [] frequency = "annually" -> 12
      [] OTHER -> 1

\* C21: prorating an amount A gives A for monthly, A/3 for quarterly, A/6
\* for semi-annually and A/12 for annually, and A for any other frequency
\* string: the result times the number of months is A.
C21_ProratedByFrequency ==
    rpc = "done" =>
        monthly_amount.num * MonthsOf(prorate_in.frequency) * prorate_in.amount.den
            = prorate_in.amount.num * monthly_amount.den

\* 12 a year is 1 a month, and 12 "yearly" stays 12
C21_Witness ==
    /\ rpc = "done"
    /\ prorate_in.amount = Ratio(12, 1)
    /\ \/ prorate_in.frequency = "annually" /\ monthly_amount = Ratio(1, 1)
       \/ prorate_in.frequency = "yearly" /\ monthly_amount = Ratio(12, 1)

-----------------------------------------------------------------------------
(* Provenance: uploads, manual entries and delete by source file           *)

\* add_transaction(...): one INSERT with source_file 'Manual Entry'
add_transaction(table, next, transaction_date, desc, category, amount, transaction_type, memo) ==
    [ table |-> Append(table,
          [ id |-> next, transaction_date |-> transaction_date, post_date |-> NoDate,
            description |-> desc, category |-> category, type |-> transaction_type,
            amount |-> amount, memo |-> memo, source_file |-> <<"M","a","n","u","a","l"," ","E","n","t","r","y">> ]),
      next_id |-> next + 1,
      transaction_id |-> next ]

\* A variant that compares the file names whatever their case.
delete_transactions_by_source_file_nocase(table, source_file) ==
    [ table |-> SelectSeq(table, LAMBDA row : lower(row.source_file) # lower(source_file)),
      deleted_count |->
          Len(SelectSeq(table, LAMBDA row : lower(row.source_file) = lower(source_file))) ]

\* DELETE FROM transactions WHERE source_file = ?; deleted_count is rowcount
delete_transactions_by_source_file(table, source_file) ==
    [ table |-> SelectSeq(table, LAMBDA row : row.source_file # source_file),
      deleted_count |-> Len(SelectSeq(table, LAMBDA row : row.source_file = source_file)) ]

\* the most uploads, manual entries and deletes of one history
MaxOps == 3

\* the files uploaded, as positions in Uploads: good.csv, B.CSV, noamt.csv
ProvenanceUploads == {1, 2, 4}

\* one file, or the same file twice in one batch
ProvenanceBatches == UNION { {<<h>>, <<h, h>>} : h \in ProvenanceUploads }

\* the names delete by source file is asked for
ProvenanceNames ==
    {Uploads[h].name : h \in ProvenanceUploads} \cup {<<"b",".","c","s","v">>, <<"M","a","n","u","a","l"," ","E","n","t","r","y">>}

InitProvenance ==
    /\ uploaded_files = <<>>
    /\ file_idx = 1
    /\ processing_results = <<>>
    /\ total_inserted = 0
    /\ \E store \in PriorStores :
          /\ transactions_table = store.transactions
          /\ other_tables = store.others
    /\ table_before = transactions_table
    /\ next_id = Len(transactions_table) + 1
    /\ calls = <<>>
    /\ pc = "idle"
    /\ ClassifierIdle
    /\ InsertIdle
    /\ SessionIdle
    /\ ExtractIdle
    /\ ProrateIdle
    /\ BatchIdle
    /\ MassEditIdle
    /\ LedgerIdle
    /\ store_log = <<>>

\* the entries the log gets for the files of one page run
UploadEntries(batch, results) ==
    [i \in 1..Len(batch) |->
        [op |-> "upload", file |-> batch[i], source_file |-> results[i].filename,
         count |-> results[i].transactions]]

\* one run of the upload page over a batch
ProvenanceUpload ==
    /\ \E batch \in ProvenanceBatches :
          LET s == RunBatch([results |-> <<>>, total |-> 0, table |-> transactions_table,
                             next_id |-> next_id, calls |-> <<>>, pc |-> "loop"],
                            batch, 1)
          IN  /\ Len(store_log) + Len(batch) <= MaxOps
              /\ transactions_table' = s.table
              /\ next_id' = s.next_id
              /\ store_log' = store_log \o UploadEntries(batch, s.results)
    /\ UNCHANGED <<uploaded_files, file_idx, processing_results, total_inserted,
                   table_before, calls, pc, cvars, ivars, other_tables, svars, evars,
                   rvars, bvars, mvars, lvars>>

\* add_transaction from the dashboard form
ProvenanceManual ==
    /\ Len(store_log) < MaxOps
    /\ LET r == add_transaction(transactions_table, next_id, Today, <<"R","e","n","t">>, "Bills",
                                Num(-900), <<"D","e","b","i","t">>, <<>>)
       IN  /\ transactions_table' = r.table
           /\ next_id' = r.next_id
           /\ store_log' = Append(store_log,
                [op |-> "manual", file |-> 0, source_file |-> <<"M","a","n","u","a","l"," ","E","n","t","r","y">>, count |-> 1])
    /\ UNCHANGED <<uploaded_files, file_idx, processing_results, total_inserted,
                   table_before, calls, pc, cvars, ivars, other_tables, svars, evars,
                   rvars, bvars, mvars, lvars>>

\* deleted_count = delete_transactions_by_source_file(selected_file)
ProvenanceDelete ==
    /\ Len(store_log) < MaxOps
    /\ \E name \in ProvenanceNames :
          LET r == delete_transactions_by_source_file(transactions_table, name) IN
          /\ transactions_table' = r.table
          /\ store_log' = Append(store_log,
                [op |-> "delete", file |-> 0, source_file |-> name,
                 count |-> r.deleted_count])
    /\ UNCHANGED <<uploaded_files, file_idx, processing_results, total_inserted,
                   next_id, table_before, calls, pc, cvars, ivars, other_tables, svars,
                   evars, rvars, bvars, mvars, lvars>>

NextProvenance == ProvenanceUpload \/ ProvenanceManual \/ ProvenanceDelete

SpecProvenance == InitProvenance /\ [][NextProvenance]_vars

\* the step is a delete by source file
DeleteStep ==
    /\ Len(store_log') = Len(store_log) + 1
    /\ store_log'[Len(store_log')].op = "delete"

\* the rows of a table stored under a name
RowsFrom(table, name) == {k \in 1..Len(table) : table[k].source_file = name}

\* the rows of a table, as a set
RowSet(table) == {table[k] : k \in 1..Len(table)}

\* C22: delete by source file for name F removes exactly the transactions
\* whose source_file is F, returns their number and leaves every other
\* transaction, manual entries included, unchanged; afterwards none with
\* source_file F remains.
C22_DeleteBySourceFile ==
    [][DeleteStep =>
        LET F == store_log'[Len(store_log')].source_file
            deleted_count == store_log'[Len(store_log')].count
        IN  /\ RowSet(transactions_table') =
                  {row \in RowSet(transactions_table) : row.source_file # F}
            /\ Len(transactions_table') = Len(transactions_table) - deleted_count
            /\ deleted_count = Cardinality(RowsFrom(transactions_table, F))
            /\ RowsFrom(transactions_table', F) = {}]_vars

\* B.CSV was uploaded twice after a manual entry, then deleted by name: its
\* four rows went and the manual entry stayed
C22_Witness ==
    /\ Len(store_log) = 3
    /\ store_log[1].op = "upload" /\ store_log[1].source_file = <<"B",".","C","S","V">>
    /\ store_log[2].op = "upload" /\ store_log[2].source_file = <<"B",".","C","S","V">>
    /\ store_log[3] = [op |-> "delete", file |-> 0, source_file |-> <<"B",".","C","S","V">>, count |-> 4]
    /\ ManualEntry \in RowSet(transactions_table)
    /\ RowsFrom(transactions_table, <<"B",".","C","S","V">>) = {}

\* the log positions of the deletes for a name
DeletesOf(name) ==
    {i \in 1..Len(store_log) :
        store_log[i].op = "delete" /\ store_log[i].source_file = name}

\* the log positions of the uploads of a file that no later delete for its
\* name has undone
UploadsKept(h) ==
    {i \in 1..Len(store_log) :
        /\ store_log[i].op = "upload"
        /\ store_log[i].file = h
        /\ \A j \in DeletesOf(Uploads[h].name) : j < i}

\* a stored row is a copy of an extracted record
CopyOf(row, record) == row = stored_row(record, row.id)

\* the number of times a sequence holds a record
TimesIn(records, record) ==
    Cardinality({n \in 1..Len(records) : records[n] = record})

\* the stored copies of a record
Copies(record) ==
    Cardinality({k \in 1..Len(transactions_table) :
                    CopyOf(transactions_table[k], record)})

\* every upload of a file reports the same inserted count
SameCountEachUpload ==
    \A i, j \in 1..Len(store_log) :
        /\ store_log[i].op = "upload"
        /\ store_log[j].op = "upload"
        /\ store_log[i].file = store_log[j].file
        => store_log[i].count = store_log[j].count

\* a delete for a name has just removed every row stored under it
LastDeleteRemovedAll ==
    store_log # <<>> /\ store_log[Len(store_log)].op = "delete" =>
        RowsFrom(transactions_table, store_log[Len(store_log)].source_file) = {}

\* C30: ingestion does not de-duplicate: a file uploaded k times, in one
\* batch or in several, has every extracted record stored k times, each
\* upload reports the same inserted count, and one delete by source file
\* for its name removes all the copies.
C30_EveryRecordStoredKTimes ==
    /\ \A h \in ProvenanceUploads :
          ~UploadExtraction[h].raised =>
              \A n \in 1..Len(UploadExtraction[h].value) :
                  LET record == UploadExtraction[h].value[n] IN
                  Copies(record) =
                      Cardinality(UploadsKept(h))
                          * TimesIn(UploadExtraction[h].value, record)
    /\ SameCountEachUpload
    /\ LastDeleteRemovedAll

-----------------------------------------------------------------------------
(* Batch operations of one session while another session reads the store   *)

\* the rows of a table with the latest transaction_date, in table order
Latest(table) ==
    SelectSeq(table, LAMBDA row :
        \A k \in 1..Len(table) : table[k].transaction_date.d <= row.transaction_date.d)

\* ORDER BY transaction_date DESC
RECURSIVE order_by_date_desc(_)
order_by_date_desc(table) ==
    IF table = <<>> THEN <<>>
    ELSE Latest(table) \o
         order_by_date_desc(SelectSeq(table, LAMBDA row :
            \E k \in 1..Len(table) : table[k].transaction_date.d > row.transaction_date.d))

\* get_all_transactions(start_date, end_date)
get_all_transactions(table, start_date, end_date) ==
    order_by_date_desc(SelectSeq(table, LAMBDA row :
        /\ row.transaction_date.d >= start_date
        /\ row.transaction_date.d <= end_date))

\* df[df['description'].str.contains(pattern_text, case=False)]['id'].tolist()
matching_ids(df, pattern_text) ==
    LET found == SelectSeq(df, LAMBDA row :
                     Contains(lower(pattern_text), lower(row.description)))
    IN  SubSeq([k \in 1..Len(found) |-> found[k].id], 1, Len(found))

\* str.replace(old, new) for a non-empty old
RECURSIVE str_replace(_, _, _)
str_replace(s, old, new) ==
    IF Len(s) < Len(old) THEN s
    ELSE IF SubSeq(s, 1, Len(old)) = old
    THEN new \o str_replace(SubSeq(s, Len(old) + 1, Len(s)), old, new)
    ELSE <<s[1]>> \o str_replace(Tail(s), old, new)

\* bulk_update_transactions(transaction_ids, category=category):
\* UPDATE transactions SET category = ? WHERE id IN (...)
bulk_update_transactions(table, transaction_ids, category) ==
    IF transaction_ids = <<>> THEN table
    ELSE SubSeq([k \in 1..Len(table) |->
                    IF \E i \in 1..Len(transaction_ids) : transaction_ids[i] = table[k].id
                    THEN [table[k] EXCEPT !.category = category]
                    ELSE table[k]], 1, Len(table))

\* a second row described by Safeway
SecondSafeway ==
    [ id |-> 3,
      transaction_date |-> [kind |-> "date", d |-> 5],
      post_date |-> NoDate,
      description |-> <<"S","a","f","e","w","a","y"," ","#","1","2">>,
      category |-> "Uncategorized",
      type |-> <<"D","e","b","i","t">>,
      amount |-> Num(-25),
      memo |-> <<>>,
      source_file |-> <<"g","o","o","d",".","c","s","v">> ]

\* the most batch operations of one history
MaxBatchOps == 2

\* the record lists of the bulk insert: those of good.csv and of B.CSV
BatchRecords == {UploadExtraction[1].value, UploadExtraction[2].value}

BatchIds == {<<2, 3>>, <<1, 2, 3>>}

BatchPatterns == {<<"s","a","f","e","w","a","y">>, <<"r","e","n","t">>}

InitBatch ==
    /\ uploaded_files = <<>>
    /\ file_idx = 1
    /\ processing_results = <<>>
    /\ total_inserted = 0
    /\ transactions_table = <<ManualEntry, ImportedEarlier, SecondSafeway>>
    /\ other_tables = UsedTables
    /\ table_before = transactions_table
    /\ next_id = Len(transactions_table) + 1
    /\ calls = <<>>
    /\ pc = "idle"
    /\ ClassifierIdle
    /\ InsertIdle
    /\ SessionIdle
    /\ ExtractIdle
    /\ ProrateIdle
    /\ ProvenanceIdle
    /\ MassEditIdle
    /\ LedgerIdle
    /\ conn = Closed
    /\ batch_op = NoBatch(0)
    /\ observed = [table |-> transactions_table, during |-> NoBatch(0)]

\* the rest of the state, which no batch step touches
BatchFrame ==
    UNCHANGED <<uploaded_files, file_idx, processing_results, total_inserted,
                table_before, calls, pc, cvars, ivars, other_tables, svars, evars,
                rvars, dvars, mvars, lvars>>

\* the connection a store function opens
Opened == [open |-> TRUE, table |-> transactions_table, next_id |-> next_id]

\* insert_transactions(transactions_data): conn = get_db_connection()
BeginInsert ==
    /\ batch_op.kind = "none"
    /\ batch_op.n < MaxBatchOps
    /\ \E transactions_data \in BatchRecords :
          batch_op' = [kind |-> "insert", todo |-> transactions_data, arg |-> <<>>,
                    before |-> transactions_table, n |-> batch_op.n + 1]
    /\ conn' = Opened
    /\ UNCHANGED <<transactions_table, next_id, observed>>
    /\ BatchFrame

\* one pass of the loop: cursor.execute(INSERT ...), or the except branch
InsertStatement ==
    /\ batch_op.kind = "insert"
    /\ batch_op.todo # <<>>
    /\ conn' = IF insert_succeeds(Head(batch_op.todo))
               THEN [conn EXCEPT
                        !.table = Append(@, stored_row(Head(batch_op.todo), conn.next_id)),
                        !.next_id = @ + 1]
               ELSE conn
    /\ batch_op' = [batch_op EXCEPT !.todo = Tail(@)]
    /\ UNCHANGED <<transactions_table, next_id, observed>>
    /\ BatchFrame

\* bulk_update_transactions(transaction_ids, category=...): connect
BeginUpdate ==
    /\ batch_op.kind = "none"
    /\ batch_op.n < MaxBatchOps
    /\ \E transaction_ids \in BatchIds :
          batch_op' = [kind |-> "update", todo |-> <<transaction_ids>>, arg |-> "Gifts",
                    before |-> transactions_table, n |-> batch_op.n + 1]
    /\ conn' = Opened
    /\ UNCHANGED <<transactions_table, next_id, observed>>
    /\ BatchFrame

\* UPDATE transactions SET category = ? WHERE id IN (...): one statement
UpdateStatement ==
    /\ batch_op.kind = "update"
    /\ batch_op.todo # <<>>
    /\ conn' = [conn EXCEPT !.table =
                  bulk_update_transactions(@, Head(batch_op.todo), batch_op.arg)]
    /\ batch_op' = [batch_op EXCEPT !.todo = Tail(@)]
    /\ UNCHANGED <<transactions_table, next_id, observed>>
    /\ BatchFrame

\* bulk_update_transaction_descriptions(transaction_ids, find_text,
\* replace_text): connect and SELECT id, description ... WHERE id IN (...)
BeginDescriptions ==
    /\ batch_op.kind = "none"
    /\ batch_op.n < MaxBatchOps
    /\ \E transaction_ids \in BatchIds :
          batch_op' = [kind |-> "descriptions",
                    todo |-> SelectSeq(transactions_table, LAMBDA row :
                                \E i \in 1..Len(transaction_ids) :
                                    transaction_ids[i] = row.id),
                    arg |-> [find_text |-> <<"S","a","f","e","w","a","y">>, replace_text |-> <<"M","a","r","k","e","t">>],
                    before |-> transactions_table, n |-> batch_op.n + 1]
    /\ conn' = Opened
    /\ UNCHANGED <<transactions_table, next_id, observed>>
    /\ BatchFrame

\* one pass of `for row in transactions`: UPDATE ... WHERE id = ? when the
\* description changes
DescriptionStatement ==
    /\ batch_op.kind = "descriptions"
    /\ batch_op.todo # <<>>
    /\ LET row == Head(batch_op.todo)
           new_desc == str_replace(row.description, batch_op.arg.find_text,
                                   batch_op.arg.replace_text)
       IN  conn' = [conn EXCEPT !.table =
                      SubSeq([k \in 1..Len(@) |->
                          IF @[k].id = row.id /\ row.description # new_desc
                          THEN [@[k] EXCEPT !.description = new_desc]
                          ELSE @[k]], 1, Len(@))]
    /\ batch_op' = [batch_op EXCEPT !.todo = Tail(@)]
    /\ UNCHANGED <<transactions_table, next_id, observed>>
    /\ BatchFrame

\* conn.commit(); conn.close()
Commit ==
    /\ batch_op.kind \in {"insert", "update", "descriptions"}
    /\ batch_op.todo = <<>>
    /\ transactions_table' = conn.table
    /\ next_id' = conn.next_id
    /\ conn' = Closed
    /\ batch_op' = NoBatch(batch_op.n)
    /\ UNCHANGED observed
    /\ BatchFrame

\* the categorize page: "Apply Bulk Categorization" is pressed
BeginCategorize ==
    /\ batch_op.kind = "none"
    /\ batch_op.n < MaxBatchOps
    /\ \E pattern_text \in BatchPatterns :
          batch_op' = [kind |-> "categorize",
                    todo |-> matching_ids(
                        get_all_transactions(transactions_table, Today.d - 30, Today.d),
                        pattern_text),
                    arg |-> "Gifts",
                    before |-> transactions_table, n |-> batch_op.n + 1]
    /\ UNCHANGED <<conn, transactions_table, next_id, observed>>
    /\ BatchFrame

\* one pass of `for trans_id in matching_ids`:
\* update_transaction_category(trans_id, new_category), which connects,
\* updates, commits and closes
CategorizeOne ==
    /\ batch_op.kind = "categorize"
    /\ batch_op.todo # <<>>
    /\ transactions_table' =
          update_transaction_category(transactions_table, Head(batch_op.todo), batch_op.arg)
    /\ batch_op' = [batch_op EXCEPT !.todo = Tail(@)]
    /\ UNCHANGED <<conn, next_id, observed>>
    /\ BatchFrame

\* the loop is over: st.success(...); st.rerun()
EndCategorize ==
    /\ batch_op.kind = "categorize"
    /\ batch_op.todo = <<>>
    /\ batch_op' = NoBatch(batch_op.n)
    /\ UNCHANGED <<conn, transactions_table, next_id, observed>>
    /\ BatchFrame

\* another session reads the store while the operation is where it is:
\* get_all_transactions() sees the committed rows
ReadStore ==
    /\ observed' = [table |-> transactions_table, during |-> batch_op]
    /\ UNCHANGED <<conn, batch_op, transactions_table, next_id>>
    /\ BatchFrame

NextBatch ==
    \/ BeginInsert \/ InsertStatement
    \/ BeginUpdate \/ UpdateStatement
    \/ BeginDescriptions \/ DescriptionStatement
    \/ Commit
    \/ BeginCategorize \/ CategorizeOne \/ EndCategorize
    \/ ReadStore

SpecBatch == InitBatch /\ [][NextBatch]_vars

\* the reader saw rows the operation under way had changed or added
SomeRowsChanged(o) == o.during.kind # "none" /\ o.table # o.during.before

\* the operation under way had rows left to change or add
SomeRowsLeft(o) ==
    CASE o.during.kind = "categorize" ->
            \E i \in 1..Len(o.during.todo), k \in 1..Len(o.table) :
                /\ o.table[k].id = o.during.todo[i]
                /\ o.table[k].category # o.during.arg
      [] OTHER -> o.during.todo # <<>>

\* C23: every batch persistence operation (the bulk insert of one file's
\* rows, a bulk update, a bulk categorization) runs in one connection's
\* transaction scope with a single commit: another session reading the
\* store never sees only some of the rows of one operation changed.
C23_NoPartialBatchObserved ==
    ~(SomeRowsChanged(observed) /\ SomeRowsLeft(observed))

-----------------------------------------------------------------------------
(* The Mass Edit page: filters and the selection                           *)

\* the rows the page lists: get_all_transactions for the last 30 days, then
\* the description filter when it has a text
filtered_df(table, filter_text) ==
    LET transactions == get_all_transactions(table, Today.d - 30, Today.d) IN
    IF filter_text = <<>> THEN transactions
    ELSE SelectSeq(transactions, LAMBDA row :
            Contains(lower(filter_text), lower(row.description)))

\* set(df['id'].tolist())
IdsOf(df) == {df[k].id : k \in 1..Len(df)}

\* One run of the page from the filters to the data editor: st.stop() when
\* nothing is listed; otherwise the Select column shows the selection, the
\* editor returns it with the boxes ticked or unticked in this run, and the
\* ids of the rows it returns with Select set replace the selection.
page_run(selection, df, toggled) ==
    IF df = <<>> THEN selection
    ELSE {id \in IdsOf(df) : (id \in selection) # (id \in toggled)}

\* the texts typed into the description filter; the last lists nothing
FilterTexts == {<<>>, <<"s","a","f","e","w","a","y">>, <<"r","e","n","t">>, <<"z","z","z">>}

InitMassEdit ==
    /\ uploaded_files = <<>>
    /\ file_idx = 1
    /\ processing_results = <<>>
    /\ total_inserted = 0
    /\ transactions_table = <<ManualEntry, ImportedEarlier, SecondSafeway>>
    /\ other_tables = UsedTables
    /\ table_before = transactions_table
    /\ next_id = Len(transactions_table) + 1
    /\ calls = <<>>
    /\ pc = "idle"
    /\ ClassifierIdle
    /\ InsertIdle
    /\ SessionIdle
    /\ ExtractIdle
    /\ ProrateIdle
    /\ ProvenanceIdle
    /\ BatchIdle
    /\ selected_transaction_ids = {}
    /\ description_filter = <<>>
    /\ LedgerIdle

\* the rest of the state, which the page leaves alone
MassEditFrame ==
    UNCHANGED <<uploaded_files, file_idx, processing_results, total_inserted,
                next_id, table_before, calls, pc, cvars, ivars, other_tables, svars,
                evars, rvars, dvars, bvars, lvars>>

\* the rows listed under the filter as it is
Listed == filtered_df(transactions_table, description_filter)

\* the user types another text into the description filter: the page runs
ChangeFilter ==
    /\ \E filter_text \in FilterTexts \ {description_filter} :
          /\ description_filter' = filter_text
          /\ selected_transaction_ids' =
                page_run(selected_transaction_ids,
                         filtered_df(transactions_table, filter_text), {})
    /\ UNCHANGED transactions_table
    /\ MassEditFrame

\* the user ticks or unticks the box of a listed row: the page runs
ToggleRow ==
    /\ \E id \in IdsOf(Listed) :
          selected_transaction_ids' = page_run(selected_transaction_ids, Listed, {id})
    /\ UNCHANGED <<transactions_table, description_filter>>
    /\ MassEditFrame

\* "Select All": the selection is set(df['id']), then st.rerun()
SelectAll ==
    /\ Listed # <<>>
    /\ selected_transaction_ids' = page_run(IdsOf(Listed), Listed, {})
    /\ UNCHANGED <<transactions_table, description_filter>>
    /\ MassEditFrame

\* "Clear Selection": the selection is set(), then st.rerun()
ClearSelection ==
    /\ Listed # <<>>
    /\ selected_transaction_ids' = page_run({}, Listed, {})
    /\ UNCHANGED <<transactions_table, description_filter>>
    /\ MassEditFrame

\* list(selected_transaction_ids), in increasing order
RECURSIVE ListOf(_)
ListOf(ids) ==
    IF ids = {} THEN <<>>
    ELSE LET least == CHOOSE i \in ids : \A j \in ids : i <= j
         IN  <<least>> \o ListOf(ids \ {least})

\* "Apply Category Update": bulk_update_transactions on the selection, the
\* selection is set(), then st.rerun()
ApplyCategoryUpdate ==
    /\ Listed # <<>>
    /\ selected_transaction_ids # {}
    /\ transactions_table' =
          bulk_update_transactions(transactions_table,
                                   ListOf(selected_transaction_ids), "Gifts")
    /\ selected_transaction_ids' =
          page_run({}, filtered_df(transactions_table', description_filter), {})
    /\ UNCHANGED description_filter
    /\ MassEditFrame

NextMassEdit ==
    ChangeFilter \/ ToggleRow \/ SelectAll \/ ClearSelection \/ ApplyCategoryUpdate

SpecMassEdit == InitMassEdit /\ [][NextMassEdit]_vars

\* C24: selected transactions persist across filter changes: a selected
\* transaction stays in the selection when the user changes a filter so
\* that it is no longer listed.
C24_SelectionSurvivesFilters ==
    [][description_filter' # description_filter =>
          selected_transaction_ids \subseteq selected_transaction_ids']_vars

-----------------------------------------------------------------------------
(* The Settings page: the categories table                                 *)

\* the tables of the store, as one record
StoreOf(transactions, others) ==
    [ transactions |-> transactions,
      recurring_expenses |-> others.recurring_expenses,
      travel_budget |-> others.travel_budget,
      income |-> others.income,
      categories |-> others.categories ]

\* the tables of a store other than transactions
OthersOf(store) ==
    [ recurring_expenses |-> store.recurring_expenses,
      travel_budget |-> store.travel_budget,
      income |-> store.income,
      categories |-> store.categories ]

\* init_database(): INSERT OR IGNORE of the default categories
RECURSIVE insert_or_ignore(_, _)
insert_or_ignore(categories, rows) ==
    IF rows = <<>> THEN categories
    ELSE insert_or_ignore(
            IF \E k \in 1..Len(categories) : categories[k][1] = Head(rows)[1]
            THEN categories
            ELSE Append(categories, Head(rows)),
            Tail(rows))

init_database(store) ==
    [store EXCEPT !.categories = insert_or_ignore(@, default_categories)]

\* add_category(name, category_type): INSERT, or IntegrityError on a name
\* the table holds
add_category(store, name, category_type) ==
    IF \E k \in 1..Len(store.categories) : store.categories[k][1] = name
    THEN [store |-> store, success |-> FALSE]
    ELSE [store |-> [store EXCEPT !.categories = Append(@, <<name, category_type>>)],
          success |-> TRUE]

\* A variant that also moves what used the category to 'Uncategorized'.
delete_category_cascades(store, category_name) ==
    LET moved(rows) ==
            SubSeq([k \in 1..Len(rows) |->
                IF rows[k].category = category_name
                THEN [rows[k] EXCEPT !.category = "Uncategorized"]
                ELSE rows[k]], 1, Len(rows))
    IN  [ store |-> [store EXCEPT
                        !.categories = SelectSeq(@, LAMBDA c : c[1] # category_name),
                        !.transactions = moved(@),
                        !.recurring_expenses = moved(@),
                        !.travel_budget = moved(@)],
          success |-> \E k \in 1..Len(store.categories) :
                         store.categories[k][1] = category_name ]

\* delete_category(category_name): DELETE FROM categories WHERE name = ?;
\* success is rowcount > 0
delete_category(store, category_name) ==
    [ store |-> [store EXCEPT
                    !.categories = SelectSeq(@, LAMBDA c : c[1] # category_name)],
      success |-> \E k \in 1..Len(store.categories) :
                     store.categories[k][1] = category_name ]

\* a recurring expense, a travel allocation and an income in the store
SettingsTables ==
    [ recurring_expenses |->
          << [id |-> 1, name |-> <<"R","e","n","t">>, category |-> "Fixed", amount |-> 900,
              frequency |-> "monthly", start_date |-> 1, end_date |-> NoDate,
              is_active |-> 1] >>,
      travel_budget |->
          << [id |-> 1, transaction_date |-> 2, description |-> <<"M","o","n","t","h","l","y"," ","T","r","a","v","e","l"," ","A","l","l","o","c","a","t","i","o","n">>,
              amount |-> 500, type |-> "allocation", category |-> "Travel"] >>,
      income |-> << [id |-> 1, description |-> <<"P","a","y">>, source |-> "Salary",
                     amount |-> 3000] >>,
      categories |-> default_categories ]

\* the names the Settings page adds and deletes
SettingsNames == {"Bills", "Fixed", "Travel", "Uncategorized", "Pets"}

InitSettings ==
    /\ uploaded_files = <<>>
    /\ file_idx = 1
    /\ processing_results = <<>>
    /\ total_inserted = 0
    /\ transactions_table = <<ManualEntry, ImportedEarlier, SecondSafeway>>
    /\ other_tables = SettingsTables
    /\ table_before = transactions_table
    /\ next_id = Len(transactions_table) + 1
    /\ calls = <<>>
    /\ pc = "idle"
    /\ ClassifierIdle
    /\ InsertIdle
    /\ SessionIdle
    /\ ExtractIdle
    /\ PagesIdle

\* the rest of the state, which the Settings page leaves alone
SettingsFrame ==
    UNCHANGED <<uploaded_files, file_idx, processing_results, total_inserted,
                next_id, table_before, calls, pc, cvars, ivars, svars, evars, pvars>>

\* the form "Add Category": add_category(cat_name, cat_type)
AddCategory ==
    /\ \E name \in SettingsNames, category_type \in {"expense", "travel"} :
          LET r == add_category(StoreOf(transactions_table, other_tables),
                                name, category_type)
          IN  /\ r.success
              /\ transactions_table' = r.store.transactions
              /\ other_tables' = OthersOf(r.store)
    /\ SettingsFrame

\* the delete button of a listed category: delete_category(cat_name)
DeleteCategory ==
    /\ \E k \in 1..Len(other_tables.categories) :
          /\ other_tables.categories[k][1] \in SettingsNames
          /\ LET r == delete_category(StoreOf(transactions_table, other_tables),
                                      other_tables.categories[k][1])
             IN  /\ transactions_table' = r.store.transactions
                 /\ other_tables' = OthersOf(r.store)
    /\ SettingsFrame

\* the dashboard is opened: init_database()
OpenDashboard ==
    /\ LET store == init_database(StoreOf(transactions_table, other_tables)) IN
          /\ store.categories # other_tables.categories
          /\ transactions_table' = store.transactions
          /\ other_tables' = OthersOf(store)
    /\ SettingsFrame

NextSettings == AddCategory \/ DeleteCategory \/ OpenDashboard

SpecSettings == InitSettings /\ [][NextSettings]_vars

\* the names of the categories table
CategoryNames(others) ==
    {others.categories[k][1] : k \in 1..Len(others.categories)}

\* the step deletes a category
CategoryDeleted ==
    CategoryNames(other_tables') \subseteq CategoryNames(other_tables)
        /\ CategoryNames(other_tables') # CategoryNames(other_tables)

\* C25: deleting a category removes only the row of that name from the
\* categories table; every transaction, recurring expense and travel entry
\* that uses the category keeps its category and all other fields.
C25_DeleteCategoryLeavesRows ==
    [][CategoryDeleted =>
          /\ transactions_table' = transactions_table
          /\ other_tables'.recurring_expenses = other_tables.recurring_expenses
          /\ other_tables'.travel_budget = other_tables.travel_budget
          /\ other_tables'.income = other_tables.income
          /\ \E name \in CategoryNames(other_tables) :
                other_tables'.categories =
                    SelectSeq(other_tables.categories, LAMBDA c : c[1] # name)]_vars

\* Bills, Fixed, Travel and Uncategorized are deleted while a transaction, a
\* recurring expense and a travel entry use them
C25_Witness ==
    /\ CategoryNames(other_tables) \cap {"Bills", "Fixed", "Travel", "Uncategorized"} = {}
    /\ \E k \in 1..Len(transactions_table) : transactions_table[k].category = "Bills"
    /\ \E k \in 1..Len(transactions_table) :
          transactions_table[k].category = "Uncategorized"
    /\ other_tables.recurring_expenses[1].category = "Fixed"
    /\ other_tables.travel_budget[1].category = "Travel"

-----------------------------------------------------------------------------
(* Recurring expenses: add, delete (deactivate), list and monthly summary  *)

\* the characters of the names, in the order of their code points
CodePoints == <<" ","A","B","C","D","E","F","G","H","I","J","K","L","M","N","O","P","Q","R","S","T","U","V","W","X","Y","Z","a","b","c","d","e","f","g","h","i","j","k","l","m","n","o","p","q","r","s","t","u","v","w","x","y","z">>

ord(c) == CHOOSE i \in 1..Len(CodePoints) : CodePoints[i] = c

\* a < b in the BINARY collation of TEXT
RECURSIVE text_less(_, _)
text_less(a, b) ==
    IF b = <<>> THEN FALSE
    ELSE IF a = <<>> THEN TRUE
    ELSE IF Head(a) = Head(b) THEN text_less(Tail(a), Tail(b))
    ELSE ord(Head(a)) < ord(Head(b))

\* ORDER BY name
RECURSIVE order_by_name(_)
order_by_name(rows) ==
    IF rows = <<>> THEN <<>>
    ELSE SelectSeq(rows, LAMBDA row :
             \A k \in 1..Len(rows) : ~text_less(rows[k].name, row.name)) \o
         order_by_name(SelectSeq(rows, LAMBDA row :
             \E k \in 1..Len(rows) : text_less(rows[k].name, row.name)))

Plus(x, y) == Ratio(x.num * y.den + y.num * x.den, x.den * y.den)

\* insert_recurring_expense(name, category, amount, frequency, start_date, end_date):
\* is_active takes its default, 1
insert_recurring_expense(table, name, category, amount, frequency, start_date, end_date) ==
    [ table |-> Append(table,
                   [id |-> Len(table) + 1, name |-> name, category |-> category,
                    amount |-> amount, frequency |-> frequency,
                    start_date |-> start_date, end_date |-> end_date,
                    is_active |-> 1]),
      expense_id |-> Len(table) + 1 ]

\* A variant that lists the inactive expenses too.
get_recurring_expenses_all(table) == order_by_name(table)

\* get_recurring_expenses(): WHERE is_active = 1 ORDER BY name
get_recurring_expenses(table) ==
    order_by_name(SelectSeq(table, LAMBDA row : row.is_active = 1))

\* delete_recurring_expense(expense_id): UPDATE ... SET is_active = 0 WHERE id = ?;
\* success is rowcount > 0
delete_recurring_expense(table, expense_id) ==
    [ table |-> SubSeq([k \in 1..Len(table) |->
                    IF table[k].id = expense_id
                    THEN [table[k] EXCEPT !.is_active = 0]
                    ELSE table[k]], 1, Len(table)),
      success |-> \E k \in 1..Len(table) : table[k].id = expense_id ]

\* the loop of get_monthly_summary over the recurring expenses
RECURSIVE recurring_total(_, _, _)
recurring_total(recurring_expenses, month_start, month_end) ==
    IF recurring_expenses = <<>> THEN Ratio(0, 1)
    ELSE LET expense == Head(recurring_expenses)
             rest == recurring_total(Tail(recurring_expenses), month_start, month_end)
         IN  IF /\ expense.start_date.d <= month_end
                /\ (expense.end_date = NoDate \/ expense.end_date.d >= month_start)
             THEN Plus(calculate_prorated_amount(expense.amount, expense.frequency), rest)
             ELSE rest

\* get_monthly_summary(year, month): the list it reads and its
\* 'recurring_expenses' entry; a month is <<first day, last day>>
get_monthly_summary(table, month) ==
    [ month |-> month,
      recurring_expenses |-> get_recurring_expenses(table),
      recurring_total |-> recurring_total(get_recurring_expenses(table), month[1], month[2]) ]

\* the most recurring expenses ever added
MaxRecurring == 3

\* what the form "Add Recurring Expense" is filled with
RecurringForms ==
    { [name |-> <<"R","e","n","t">>, category |-> "Bills", amount |-> Ratio(900, 1),
       frequency |-> "monthly", start_date |-> [kind |-> "date", d |-> 1],
       end_date |-> NoDate],
      [name |-> <<"G","y","m">>, category |-> "Bills", amount |-> Ratio(120, 1),
       frequency |-> "annually", start_date |-> [kind |-> "date", d |-> 1],
       end_date |-> [kind |-> "date", d |-> 35]],
      [name |-> <<"c","a","r">>, category |-> "Bills", amount |-> Ratio(100, 1),
       frequency |-> "quarterly", start_date |-> [kind |-> "date", d |-> 40],
       end_date |-> NoDate] }

\* the months of the dashboard, as <<first day, last day>>
SummaryMonths == {<<1, 31>>, <<32, 59>>, <<60, 90>>}

InitRecurring ==
    /\ uploaded_files = <<>>
    /\ file_idx = 1
    /\ processing_results = <<>>
    /\ total_inserted = 0
    /\ transactions_table = <<ManualEntry, ImportedEarlier>>
    /\ other_tables = [SettingsTables EXCEPT !.recurring_expenses = <<>>]
    /\ table_before = transactions_table
    /\ next_id = Len(transactions_table) + 1
    /\ calls = <<>>
    /\ pc = "idle"
    /\ ClassifierIdle
    /\ InsertIdle
    /\ SessionIdle
    /\ ExtractIdle
    /\ PagesIdle

\* the rest of the state, which these pages leave alone
RecurringFrame ==
    UNCHANGED <<uvars, cvars, ivars, svars, evars, rvars, dvars, bvars, mvars,
                travel_session, travel_form>>

\* the form "Add Recurring Expense" with every required field filled
AddRecurring ==
    /\ Len(other_tables.recurring_expenses) < MaxRecurring
    /\ \E f \in RecurringForms :
          /\ f.name # <<>> /\ f.amount.num > 0
          /\ other_tables' = [other_tables EXCEPT !.recurring_expenses =
                insert_recurring_expense(@, f.name, f.category, f.amount, f.frequency,
                                         f.start_date, f.end_date).table]
    /\ UNCHANGED recurring_view
    /\ RecurringFrame

\* "Delete Selected" on one of the listed expenses; which of two expenses
\* of one name and category the select box stands for is left open
DeleteRecurring ==
    /\ \E k \in 1..Len(get_recurring_expenses(other_tables.recurring_expenses)) :
          LET r == delete_recurring_expense(other_tables.recurring_expenses,
                      get_recurring_expenses(other_tables.recurring_expenses)[k].id)
          IN  /\ r.success
              /\ other_tables' = [other_tables EXCEPT !.recurring_expenses = r.table]
    /\ UNCHANGED recurring_view
    /\ RecurringFrame

\* the dashboard shows a month: get_monthly_summary(year, month)
MonthlySummary ==
    /\ \E month \in SummaryMonths :
          recurring_view' = get_monthly_summary(other_tables.recurring_expenses, month)
    /\ recurring_view' # recurring_view
    /\ UNCHANGED other_tables
    /\ RecurringFrame

NextRecurring == AddRecurring \/ DeleteRecurring \/ MonthlySummary

SpecRecurring == InitRecurring /\ [][NextRecurring]_vars

\* the rows of a table that are inactive
Inactive(table) == SelectSeq(table, LAMBDA row : row.is_active = 0)

\* the table without its inactive rows
Purged(table) == SelectSeq(table, LAMBDA row : row.is_active # 0)

\* C26: a deleted recurring expense stays in the store with every field but
\* is_active unchanged, is_active only ever goes from 1 to 0, and a list or
\* monthly summary read afterwards holds no inactive expense and sums what
\* it would sum if the inactive rows were not in the store at all.
C26_DeletedStaysInactive ==
    [][/\ \A k \in 1..Len(other_tables.recurring_expenses) :
             /\ k <= Len(other_tables'.recurring_expenses)
             /\ [other_tables'.recurring_expenses[k] EXCEPT !.is_active =
                    other_tables.recurring_expenses[k].is_active]
                   = other_tables.recurring_expenses[k]
             /\ other_tables.recurring_expenses[k].is_active = 0
                   => other_tables'.recurring_expenses[k].is_active = 0
       /\ recurring_view' # recurring_view =>
             /\ \A k \in 1..Len(recurring_view'.recurring_expenses) :
                   \A j \in 1..Len(Inactive(other_tables'.recurring_expenses)) :
                      recurring_view'.recurring_expenses[k].id
                         # Inactive(other_tables'.recurring_expenses)[j].id
             /\ recurring_view'.recurring_total =
                   recurring_total(order_by_name(Purged(other_tables'.recurring_expenses)),
                                   recurring_view'.month[1], recurring_view'.month[2])
      ]_vars

\* Rent was added first and then deleted; the summary read afterwards lists
\* and counts the gym membership alone
C26_Witness ==
    /\ Len(other_tables.recurring_expenses) = 2
    /\ other_tables.recurring_expenses[1].name = <<"R","e","n","t">>
    /\ other_tables.recurring_expenses[1].is_active = 0
    /\ other_tables.recurring_expenses[1].amount = Ratio(900, 1)
    /\ other_tables.recurring_expenses[2].is_active = 1
    /\ Len(recurring_view.recurring_expenses) = 1
    /\ recurring_view.recurring_expenses[1].name = <<"G","y","m">>
    /\ recurring_view.recurring_total = Ratio(10, 1)
-----------------------------------------------------------------------------
(* The Travel Budget page: allocations, expenses and the balance check     *)
(* Amounts are whole hundredths.                                            *)

\* add_travel_allocation(amount, date)
add_travel_allocation(table, amount, date) ==
    [ table |-> Append(table,
                   [id |-> Len(table) + 1, transaction_date |-> date,
                    description |-> <<"M","o","n","t","h","l","y"," ","T","r","a","v","e","l"," ","A","l","l","o","c","a","t","i","o","n">>,
                    amount |-> amount, type |-> "allocation", category |-> "Travel"]),
      allocation_id |-> Len(table) + 1 ]

\* A variant that stores the expense with the sign it was entered with.
add_travel_expense_as_entered(table, desc, amount, date) ==
    [ table |-> Append(table,
                   [id |-> Len(table) + 1, transaction_date |-> date,
                    description |-> desc,
                    amount |-> amount, type |-> "expense", category |-> "Travel"]),
      expense_id |-> Len(table) + 1 ]

\* add_travel_expense(description, amount, date): the amount is stored as -abs(amount)
add_travel_expense(table, desc, amount, date) ==
    [ table |-> Append(table,
                   [id |-> Len(table) + 1, transaction_date |-> date,
                    description |-> desc,
                    amount |-> -Abs(amount), type |-> "expense", category |-> "Travel"]),
      expense_id |-> Len(table) + 1 ]

\* get_travel_budget_balance(): SELECT COALESCE(SUM(amount), 0)
RECURSIVE get_travel_budget_balance(_)
get_travel_budget_balance(table) ==
    IF table = <<>> THEN 0
    ELSE Head(table).amount + get_travel_budget_balance(Tail(table))

\* the most forms submitted
MaxTravelOps == 4

\* what the two forms are filled with; number_input keeps amounts >= 0.01
AllocationAmounts == {2, 3}

ExpenseAmounts == {1, 2, 3}

ExpenseDescriptions == {<<>>, <<"F","l","i","g","h","t"," ","t","o"," ","N","Y","C">>}

InitTravel ==
    /\ uploaded_files = <<>>
    /\ file_idx = 1
    /\ processing_results = <<>>
    /\ total_inserted = 0
    /\ transactions_table = <<ManualEntry, ImportedEarlier>>
    /\ other_tables = [SettingsTables EXCEPT !.travel_budget = <<>>]
    /\ table_before = transactions_table
    /\ next_id = Len(transactions_table) + 1
    /\ calls = <<>>
    /\ pc = "idle"
    /\ ClassifierIdle
    /\ InsertIdle
    /\ SessionIdle
    /\ ExtractIdle
    /\ PagesIdle

\* the rest of the state, which the page leaves alone
TravelFrame ==
    UNCHANGED <<uvars, cvars, ivars, svars, evars, rvars, dvars, bvars, mvars,
                recurring_view>>

\* the script run of session s reaches line 19:
\* current_balance = get_travel_budget_balance()
Render(s) ==
    /\ travel_session[s].pc = "closed"
    /\ travel_form.n < MaxTravelOps
    /\ travel_session' = [travel_session EXCEPT ![s] =
          [pc |-> "rendered",
           current_balance |-> get_travel_budget_balance(other_tables.travel_budget)]]
    /\ UNCHANGED <<other_tables, travel_form>>
    /\ TravelFrame

\* the same run handles "Add Allocation" and ends in st.rerun()
AddAllocation(s) ==
    /\ travel_session[s].pc = "rendered"
    /\ \E allocation_amount \in AllocationAmounts :
          /\ other_tables' = [other_tables EXCEPT !.travel_budget =
                add_travel_allocation(@, allocation_amount, Today).table]
          /\ travel_form' = [session |-> s, kind |-> "allocation",
                             amount |-> allocation_amount, description |-> <<>>,
                             accepted |-> TRUE, n |-> travel_form.n + 1]
    /\ travel_session' = [travel_session EXCEPT ![s].pc = "closed"]
    /\ TravelFrame

\* the same run handles "Record Expense": the description is required and
\* the amount is compared with the current_balance of line 19
RecordExpense(s) ==
    /\ travel_session[s].pc = "rendered"
    /\ \E expense_description \in ExpenseDescriptions, expense_amount \in ExpenseAmounts :
          IF expense_description = <<>>
                \/ expense_amount > travel_session[s].current_balance
          THEN /\ travel_form' = [session |-> s, kind |-> "expense",
                                  amount |-> expense_amount,
                                  description |-> expense_description,
                                  accepted |-> FALSE, n |-> travel_form.n + 1]
               /\ UNCHANGED other_tables
          ELSE /\ other_tables' = [other_tables EXCEPT !.travel_budget =
                     add_travel_expense(@, expense_description, expense_amount,
                                        Today).table]
               /\ travel_form' = [session |-> s, kind |-> "expense",
                                  amount |-> expense_amount,
                                  description |-> expense_description,
                                  accepted |-> TRUE, n |-> travel_form.n + 1]
    /\ travel_session' = [travel_session EXCEPT ![s].pc = "closed"]
    /\ TravelFrame

\* one browser session uses the page
NextTravel == Render(1) \/ AddAllocation(1) \/ RecordExpense(1)

SpecTravel == InitTravel /\ [][NextTravel]_vars

\* two browser sessions use the page, each script run in its own thread
NextTravelShared ==
    \E s \in TravelSessions : Render(s) \/ AddAllocation(s) \/ RecordExpense(s)

SpecTravelShared == InitTravel /\ [][NextTravelShared]_vars

\* an expense form was submitted in this step with more than the store holds
TooLargeSubmitted ==
    /\ travel_form'.n # travel_form.n
    /\ travel_form'.kind = "expense"
    /\ travel_form'.amount > get_travel_budget_balance(other_tables.travel_budget)

\* C27: with one session the balance is never negative, stored expenses are
\* non-positive and stored allocations positive, and an expense larger than
\* the balance is rejected and leaves the store unchanged.
C27_SingleSessionNeverOverdrawn ==
    /\ [](/\ get_travel_budget_balance(other_tables.travel_budget) >= 0
          /\ \A k \in 1..Len(other_tables.travel_budget) :
                /\ other_tables.travel_budget[k].type = "expense"
                      => other_tables.travel_budget[k].amount <= 0
                /\ other_tables.travel_budget[k].type = "allocation"
                      => other_tables.travel_budget[k].amount > 0)
    /\ [][TooLargeSubmitted =>
             /\ ~travel_form'.accepted
             /\ other_tables' = other_tables]_vars

\* 3.00 was allocated, 2.00 spent, and an expense of 2.00 was then rejected
C27_Witness ==
    /\ Len(other_tables.travel_budget) = 2
    /\ other_tables.travel_budget[1].amount = 3
    /\ other_tables.travel_budget[2].amount = -2
    /\ travel_form.kind = "expense"
    /\ travel_form.amount = 2
    /\ travel_form.description # <<>>
    /\ ~travel_form.accepted

\* C28: with two sessions sharing the database, the stored travel balance
\* is never negative.
C28_SharedBalanceNeverNegative ==
    get_travel_budget_balance(other_tables.travel_budget) >= 0
-----------------------------------------------------------------------------
(* Keywords that stand in two lists, or inside a keyword of an earlier list *)

\* the keyword occurs in the case-folded description
Occurs(keyword, d) == Contains(keyword, lower(d))

\* C29: a description containing "costco" is classified Groceries; one
\* containing "amazon prime" is classified Groceries or Eating out when a
\* keyword of those lists occurs and Household Goods otherwise, never
\* Fun / Misc; one containing "uber eats" is classified Groceries when a
\* Groceries keyword occurs and Eating out otherwise, never Travel.
C29_ShadowedKeywordsNeverDecide ==
    cpc = "done" =>
        /\ Occurs(<<"c","o","s","t","c","o">>, description) => category_result = "Groceries"
        /\ Occurs(<<"a","m","a","z","o","n"," ","p","r","i","m","e">>, description) =>
              category_result =
                 IF AnyKeywordIn(grocery_keywords, lower(description)) THEN "Groceries"
                 ELSE IF AnyKeywordIn(eating_out_keywords, lower(description))
                      THEN "Eating out"
                      ELSE "Household Goods"
        /\ Occurs(<<"u","b","e","r"," ","e","a","t","s">>, description) =>
              category_result =
                 IF AnyKeywordIn(grocery_keywords, lower(description)) THEN "Groceries"
                 ELSE "Eating out"

\* "AMAZON PRIME" followed by a word of no earlier list has been classified
C29_Witness ==
    /\ cpc = "done"
    /\ Occurs(<<"a","m","a","z","o","n"," ","p","r","i","m","e">>, description)
    /\ description # lower(description)
    /\ 9 \in MatchingLists(description)
    /\ ~(1 \in MatchingLists(description))
    /\ ~(2 \in MatchingLists(description))
    /\ category_result = "Household Goods"
====
